---------------------------- MODULE Spec2Model ----------------------------
(***************************************************************************)
(* Cal-PIT: the expression pipeline of the calculus visualizer.            *)
(*                                                                         *)
(*   src/ai_helper.py       classify_function (the lexical classifier)     *)
(*   src/function_utils.py  parse_function, compute_derivative,            *)
(*                          compute_integral                               *)
(*                                                                         *)
(* A text is a sequence of one-character strings, so that the substring    *)
(* tests and the regular expressions of the source are computed character  *)
(* by character, as Python computes them.                                  *)
(***************************************************************************)
EXTENDS Integers, Sequences, FiniteSets, TLC

VARIABLES
    pc,       \* position of the current request
    text,     \* the text the user entered (sequence of characters)
    cls,      \* result of classify_function
    parsed,   \* outcome of parse_function
    expr,     \* expression handed to the symbolic engine
    mid,      \* result of the first engine call
    result,   \* result of the second engine call
    orders,   \* derivative orders passed to the engine calls, in call order
    request,  \* arguments of the current integration, sampling or plot-data call
    bundle,   \* what evaluate_function or generate_plot_data returned
    ui,       \* a front end: its widgets and, in the web one, its session state
    history,  \* the function_entries table, oldest entry first
    calls,    \* the core calls made, in order: by the last front-end request,
              \* or by the process since it started
    registries \* the module-level dictionaries of ai_helper.py

vars == <<pc, text, cls, parsed, expr, mid, result, orders, request, bundle, ui, history, calls,
          registries>>

None == "none"

(***************************************************************************)
(* Characters and substrings                                               *)
(***************************************************************************)

Digits == {"0", "1", "2", "3", "4", "5", "6", "7", "8", "9"}

LowerLetters ==
    {"a", "b", "c", "d", "e", "f", "g", "h", "i", "j", "k", "l", "m",
     "n", "o", "p", "q", "r", "s", "t", "u", "v", "w", "x", "y", "z"}

\* str.lower() on the upper-case letters the inputs use
UpperToLower ==
    ("A" :> "a") @@ ("C" :> "c") @@ ("E" :> "e") @@ ("G" :> "g") @@
    ("I" :> "i") @@ ("L" :> "l") @@ ("N" :> "n") @@ ("O" :> "o") @@
    ("P" :> "p") @@ ("S" :> "s") @@ ("T" :> "t") @@ ("X" :> "x")

UpperLetters == DOMAIN UpperToLower

LowerChar(c) == IF c \in UpperLetters THEN UpperToLower[c] ELSE c

Lower(s) == [i \in 1..Len(s) |-> LowerChar(s[i])]

\* Python's `pat in s`
Contains(s, pat) ==
    \E i \in 1..(Len(s) - Len(pat) + 1) : SubSeq(s, i, i + Len(pat) - 1) = pat

\* s[i:] starts with pat (i is 1-based)
StartsAt(s, i, pat) ==
    /\ i >= 1
    /\ i + Len(pat) - 1 <= Len(s)
    /\ SubSeq(s, i, i + Len(pat) - 1) = pat

RECURSIVE Flatten(_)
Flatten(toks) == IF toks = <<>> THEN <<>> ELSE Head(toks) \o Flatten(Tail(toks))

(***************************************************************************)
(* Classifier: src/ai_helper.py, classify_function                         *)
(***************************************************************************)

TrigNames ==
    { <<"s","i","n">>, <<"c","o","s">>, <<"t","a","n">>,
      <<"s","e","c">>, <<"c","s","c">>, <<"c","o","t">> }

ExpMarks == { <<"e","x","p">>, <<"*","*">> }

GeneralExpMarks == { <<"e","x","p","(">>, <<"e","*","*">> }

LogNames == { <<"l","o","g">>, <<"l","n">> }

XPower == <<"x","*","*">>

\* end of the run of digits that starts at position i (i - 1 when there is none)
RECURSIVE DigitRunEnd(_, _)
DigitRunEnd(s, i) ==
    IF i <= Len(s) /\ s[i] \in Digits THEN DigitRunEnd(s, i + 1) ELSE i - 1

\* re.findall(r'x\*\*\d+', s): the non-overlapping matches, left to right
RECURSIVE FindPowerTerms(_, _)
FindPowerTerms(s, i) ==
    IF i > Len(s) THEN <<>>
    ELSE IF StartsAt(s, i, XPower) /\ DigitRunEnd(s, i + 3) >= i + 3
         THEN <<SubSeq(s, i, DigitRunEnd(s, i + 3))>>
                  \o FindPowerTerms(s, DigitRunEnd(s, i + 3) + 1)
         ELSE FindPowerTerms(s, i + 1)

\* re.match(r'x\*\*\d+', term)
MatchPowerTerm(term) == StartsAt(term, 1, XPower) /\ DigitRunEnd(term, 4) >= 4

\* the branch taken when 'exp' or '**' is in the text (lines 60-65)
ClassifyPower(s) ==
    LET terms == FindPowerTerms(s, 1) IN
    IF /\ Contains(s, XPower)
       /\ ~ \E m \in GeneralExpMarks : Contains(s, m)
       /\ terms # <<>>
       /\ \A k \in 1..Len(terms) : MatchPowerTerm(terms[k])
    THEN "polynomial"
    ELSE "exponential"

\* the division test placed before the logarithm test
classify_function_DivisionBeforeLog(expr_str) ==
    LET s == Lower(expr_str) IN
    IF \E trig \in TrigNames : Contains(s, trig) THEN "trigonometric"
    ELSE IF \E m \in ExpMarks : Contains(s, m) THEN ClassifyPower(s)
    ELSE IF Contains(s, <<"/">>) THEN "rational"
    ELSE IF \E l \in LogNames : Contains(s, l) THEN "logarithmic"
    ELSE "polynomial"

\* a sixth tag for the texts that match none of the tests
classify_function_UnknownDefault(expr_str) ==
    LET s == Lower(expr_str) IN
    IF \E trig \in TrigNames : Contains(s, trig) THEN "trigonometric"
    ELSE IF \E m \in ExpMarks : Contains(s, m) THEN ClassifyPower(s)
    ELSE IF \E l \in LogNames : Contains(s, l) THEN "logarithmic"
    ELSE IF Contains(s, <<"/">>) THEN "rational"
    ELSE "unknown"

classify_function(expr_str) ==
    LET s == Lower(expr_str) IN
    IF \E trig \in TrigNames : Contains(s, trig) THEN "trigonometric"
    ELSE IF \E m \in ExpMarks : Contains(s, m) THEN ClassifyPower(s)
    ELSE IF \E l \in LogNames : Contains(s, l) THEN "logarithmic"
    ELSE IF Contains(s, <<"/">>) THEN "rational"
    ELSE "polynomial"

\* FUNCTION_EXPLANATIONS (lines 15-41); the two texts of an entry are named by
\* their opening words
FUNCTION_EXPLANATIONS ==
    [ polynomial |->
        [ explanation |-> "Polynomial functions are expressions with variables raised to ...",
          examples |-> <<"x**2 - 4*x + 4", "x**3 - 6*x**2 + 11*x - 6", "2*x**4 - 3*x**2 + 1">>,
          properties |-> "Polynomials have continuous derivatives of all orders. ..." ],
      trigonometric |->
        [ explanation |-> "Trigonometric functions relate angles to the sides of ...",
          examples |-> <<"sin(x)", "cos(x)", "tan(x)", "sin(x)**2 + cos(x)**2">>,
          properties |-> "Trigonometric functions are periodic, ..." ],
      exponential |->
        [ explanation |-> "Exponential functions have a constant base raised to ...",
          examples |-> <<"exp(x)", "2**x", "exp(-x**2)">>,
          properties |-> "The derivative of e^x is itself. ..." ],
      logarithmic |->
        [ explanation |-> "Logarithmic functions are the inverse of exponential functions. ...",
          examples |-> <<"log(x)", "log(x, 10)", "ln(x)">>,
          properties |-> "Logarithms convert multiplication to addition: ..." ],
      rational |->
        [ explanation |-> "Rational functions are ratios of polynomials. ...",
          examples |-> <<"1/x", "x/(x**2-1)", "(x**2+1)/(x-2)">>,
          properties |-> "Rational functions may have vertical asymptotes ..." ] ]

\* the default of the .get of line 77
DefaultExplanation == [explanation |-> "This is a mathematical function."]

\* lines 75-78
\* `table` is the dictionary FUNCTION_EXPLANATIONS as the call finds it
explanation(table, expr_str) ==
    LET function_type == classify_function(expr_str)
    IN  IF function_type \in DOMAIN table
        THEN table[function_type]
        ELSE DefaultExplanation

get_function_explanation(expr_str) == explanation(FUNCTION_EXPLANATIONS, expr_str)


(***************************************************************************)
(* Parser: src/function_utils.py, parse_function                           *)
(***************************************************************************)

WordChars == LowerLetters \cup UpperLetters \cup Digits \cup {"_"}

Whitespace == {" "}

\* str.strip()
RECURSIVE StripLeft(_)
StripLeft(s) ==
    IF s # <<>> /\ Head(s) \in Whitespace THEN StripLeft(Tail(s)) ELSE s

RECURSIVE StripRight(_)
StripRight(s) ==
    IF s # <<>> /\ s[Len(s)] \in Whitespace
    THEN StripRight(SubSeq(s, 1, Len(s) - 1))
    ELSE s

Strip(s) == StripRight(StripLeft(s))

\* \b<name>\b matches at position i of s
WordMatchAt(s, i, name) ==
    /\ StartsAt(s, i, name)
    /\ (i = 1 \/ s[i - 1] \notin WordChars)
    /\ (i + Len(name) > Len(s) \/ s[i + Len(name)] \notin WordChars)

\* re.sub(r'\b<name>\b', repl, s), scanning from position i
RECURSIVE ReSubWordFrom(_, _, _, _)
ReSubWordFrom(s, name, repl, i) ==
    IF i > Len(s) THEN <<>>
    ELSE IF WordMatchAt(s, i, name)
         THEN repl \o ReSubWordFrom(s, name, repl, i + Len(name))
         ELSE <<s[i]>> \o ReSubWordFrom(s, name, repl, i + 1)

\* the same substitution with the \b anchors left out (plain substring replace)
RECURSIVE ReSubAnywhereFrom(_, _, _, _)
ReSubAnywhereFrom(s, name, repl, i) ==
    IF i > Len(s) THEN <<>>
    ELSE IF StartsAt(s, i, name)
         THEN repl \o ReSubAnywhereFrom(s, name, repl, i + Len(name))
         ELSE <<s[i]>> \o ReSubAnywhereFrom(s, name, repl, i + 1)

ReSubWord_NoBoundary(s, name, repl) == ReSubAnywhereFrom(s, name, repl, 1)

ReSubWord(s, name, repl) == ReSubWordFrom(s, name, repl, 1)

SpDot == <<"s","p",".">>

\* lines 23-29: the seven substitutions, in source order
RewriteNames(s) ==
    LET s1 == ReSubWord(s,  <<"s","i","n">>,     SpDot \o <<"s","i","n">>)
        s2 == ReSubWord(s1, <<"c","o","s">>,     SpDot \o <<"c","o","s">>)
        s3 == ReSubWord(s2, <<"t","a","n">>,     SpDot \o <<"t","a","n">>)
        s4 == ReSubWord(s3, <<"l","o","g">>,     SpDot \o <<"l","o","g">>)
        s5 == ReSubWord(s4, <<"e","x","p">>,     SpDot \o <<"e","x","p">>)
        s6 == ReSubWord(s5, <<"s","q","r","t">>, SpDot \o <<"s","q","r","t">>)
        s7 == ReSubWord(s6, <<"a","b","s">>,     SpDot \o <<"A","b","s">>)
    IN s7

\* str.replace(old, new) for a one-character old
RECURSIVE ReplaceChar(_, _, _)
ReplaceChar(s, old, new) ==
    IF s = <<>> THEN <<>>
    ELSE (IF Head(s) = old THEN new ELSE <<Head(s)>>) \o ReplaceChar(Tail(s), old, new)

\* line 32 with a single `*` as the replacement
CaretToPower_SingleStar(s) == ReplaceChar(s, "^", <<"*">>)

\* line 32: function_str.replace('^', '**')
CaretToPower(s) == ReplaceChar(s, "^", <<"*","*">>)

\* lines 20-32: the text handed to sympify
Normalize(function_str) == CaretToPower(RewriteNames(Strip(function_str)))

(***************************************************************************)
(* sp.sympify(function_str, locals={'x': x}) (line 36).  sympify tokenizes *)
(* the text, turns every name that is neither in locals nor exported by    *)
(* sympy into Symbol(name) (Function(name) before a parenthesis), keeps a  *)
(* name that follows a dot as an attribute, and evaluates the result with  *)
(* Python's eval.                                                          *)
(***************************************************************************)

RECURSIVE WordRunEnd(_, _)
WordRunEnd(s, i) ==
    IF i <= Len(s) /\ s[i] \in WordChars THEN WordRunEnd(s, i + 1) ELSE i - 1

\* end of the number literal starting at the digit at position i: digits, then
\* optionally a point and more digits
NumberEnd(s, i) ==
    LET e == DigitRunEnd(s, i) IN
    IF StartsAt(s, e + 1, <<".">>) THEN DigitRunEnd(s, e + 2) ELSE e

OpChars == {"+", "-", "*", "/", "(", ")", ".", ","}

Tok(k, v) == [k |-> k, v |-> v]

RECURSIVE Tokenize(_, _)
Tokenize(s, i) ==
    IF i > Len(s) THEN <<>>
    ELSE IF s[i] \in Whitespace THEN Tokenize(s, i + 1)
    ELSE IF s[i] \in Digits
         THEN <<Tok("NUMBER", SubSeq(s, i, NumberEnd(s, i)))>>
                  \o Tokenize(s, NumberEnd(s, i) + 1)
    ELSE IF s[i] \in WordChars
         THEN <<Tok("NAME", SubSeq(s, i, WordRunEnd(s, i)))>>
                  \o Tokenize(s, WordRunEnd(s, i) + 1)
    ELSE IF StartsAt(s, i, <<"*","*">>)
         THEN <<Tok("OP", <<"*","*">>)>> \o Tokenize(s, i + 2)
    ELSE IF s[i] \in OpChars
         THEN <<Tok("OP", <<s[i]>>)>> \o Tokenize(s, i + 1)
    ELSE <<Tok("ERRORTOKEN", <<s[i]>>)>> \o Tokenize(s, i + 1)

\* locals={'x': x}
LocalNames == { <<"x">> }

\* callables that `from sympy import *` puts in sympify's namespace (those the
\* inputs can spell)
SympyFunctions ==
    { <<"s","i","n">>, <<"c","o","s">>, <<"t","a","n">>, <<"l","o","g">>,
      <<"e","x","p">>, <<"s","q","r","t">>, <<"A","b","s">>,
      <<"s","i","n","h">>, <<"c","o","s","h">>, <<"t","a","n","h">>,
      <<"c","o","t">>, <<"s","e","c">>, <<"c","s","c">>, <<"l","n">> }

\* attributes every sympy expression object has (those the inputs can spell)
BasicAttrs == { <<"a","r","g","s">> }

BinaryOps == { <<"+">>, <<"-">>, <<"*">>, <<"/">>, <<"*","*">> }

IsOp(t, v) == t.k = "OP" /\ t.v = v

\* state of the scan: what the grammar expects next, the open parentheses (each
\* with whether an operator was waiting for the parenthesised operand), whether
\* an operator is waiting for the current operand, the kind of the latest
\* operand, and what evaluation has done so far
ScanStart ==
    [ mode  |-> "operand", stack |-> <<>>, pending |-> FALSE, kind |-> None,
      syn   |-> TRUE,      ev    |-> TRUE,
      syms  |-> {},        funcs |-> {},   attrs |-> {} ]

Arithmetic(kind) == kind \in {"expr", "number"}

\* the operand is complete: an operator waiting for it is applied to it
Finalise(st) ==
    IF st.pending
    THEN [st EXCEPT !.pending = FALSE, !.ev = @ /\ Arithmetic(st.kind), !.kind = "expr"]
    ELSE st

Top(stack) == stack[Len(stack)]

Pop(stack) == SubSeq(stack, 1, Len(stack) - 1)

EndMarker == Tok("ENDMARKER", <<>>)

\* one token, with the token after it (EndMarker at the end)
ScanStep(st, t, nxt) ==
    LET bad    == [st EXCEPT !.syn = FALSE]
        called == IsOp(nxt, <<"(">>)
        fin    == Finalise(st)
    IN
    IF st.mode = "operand" THEN
        IF t.k = "NUMBER" THEN [st EXCEPT !.mode = "after", !.kind = "number"]
        ELSE IF t.k = "NAME" THEN
            IF t.v \in LocalNames
                THEN [st EXCEPT !.mode = "after", !.kind = "expr"]
            ELSE IF t.v \in SympyFunctions
                THEN [st EXCEPT !.mode = "after", !.kind = "class"]
            ELSE IF called
                THEN [st EXCEPT !.mode = "after", !.kind = "class",
                                !.funcs = IF st.ev THEN @ \cup {t.v} ELSE @]
            ELSE [st EXCEPT !.mode = "after", !.kind = "expr",
                            !.syms = IF st.ev THEN @ \cup {t.v} ELSE @]
        ELSE IF IsOp(t, <<"(">>)
            THEN [st EXCEPT !.stack = Append(@, [type |-> "group", pending |-> st.pending]),
                            !.pending = FALSE]
        ELSE IF IsOp(t, <<"-">>) \/ IsOp(t, <<"+">>) THEN [st EXCEPT !.pending = TRUE]
        ELSE bad
    ELSE IF st.mode = "attr" THEN
        IF t.k = "NAME"
        THEN [st EXCEPT !.mode  = "after",
                        !.attrs = IF st.ev THEN @ \cup {t.v} ELSE @,
                        !.ev    = @ /\ Arithmetic(st.kind) /\ t.v \in BasicAttrs,
                        !.kind  = "other"]
        ELSE bad
    ELSE \* an operand has just been read
        IF t.k = "OP" /\ t.v \in BinaryOps
            THEN [fin EXCEPT !.mode = "operand", !.pending = TRUE,
                             !.ev = @ /\ Arithmetic(fin.kind)]
        ELSE IF IsOp(t, <<"(">>)
            THEN [st EXCEPT !.mode    = "operand",
                            !.stack   = Append(@, [type |-> "call", pending |-> st.pending]),
                            !.pending = FALSE,
                            !.ev      = @ /\ st.kind = "class"]
        ELSE IF IsOp(t, <<")">>) THEN
            IF st.stack = <<>> THEN bad
            ELSE IF Top(st.stack).type = "call"
                THEN [fin EXCEPT !.stack   = Pop(@),
                                 !.pending = Top(st.stack).pending,
                                 !.ev      = @ /\ Arithmetic(fin.kind),
                                 !.kind    = "expr"]
            ELSE [fin EXCEPT !.stack = Pop(@), !.pending = Top(st.stack).pending]
        ELSE IF IsOp(t, <<".">>) THEN [st EXCEPT !.mode = "attr"]
        ELSE IF IsOp(t, <<",">>) /\ st.stack # <<>> /\ Top(st.stack).type = "call"
            THEN [fin EXCEPT !.mode = "operand", !.ev = @ /\ Arithmetic(fin.kind)]
        ELSE bad

RECURSIVE Scan(_, _, _)
Scan(toks, i, st) ==
    IF ~ st.syn THEN st
    ELSE IF i > Len(toks) THEN Finalise(st)
    ELSE Scan(toks, i + 1,
              ScanStep(st, toks[i], IF i < Len(toks) THEN toks[i + 1] ELSE EndMarker))

\* the text is one complete Python expression
SyntaxOK(toks) ==
    LET st == Scan(toks, 1, ScanStart) IN
    st.syn /\ st.mode = "after" /\ st.stack = <<>>

\* outcome of sympify: the object it returns, or the exception it raises; the
\* names it turned into new symbols and undefined functions, and the attributes
\* eval looked up on the way (a syntax error is raised before anything is
\* evaluated)
Sympify(s) ==
    LET toks == Tokenize(s, 1)
        st   == Scan(toks, 1, ScanStart)
    IN
    IF ~ SyntaxOK(toks)
    THEN [ok |-> FALSE, tree |-> <<>>, kind |-> None,
          syms |-> {}, funcs |-> {}, attrs |-> {}]
    ELSE [ok    |-> st.ev,
          tree  |-> IF st.ev THEN toks ELSE <<>>,
          kind  |-> IF st.ev THEN st.kind ELSE None,
          syms  |-> st.syms, funcs |-> st.funcs, attrs |-> st.attrs]

\* lines 34-39: ok = FALSE stands for the ValueError raised at line 39
parse_function(function_str) ==
    LET handed == Normalize(function_str) IN
    [handed |-> handed] @@ Sympify(handed)

(***************************************************************************)
(* Symbolic engine: src/function_utils.py, compute_derivative and          *)
(* compute_integral.  An expression is                                     *)
(*     sum_k p[k+1] * x**k  +  s * sin(x)  +  c * cos(x)  +  e * exp(x)     *)
(* with exact rational coefficients p[k] = <<numerator, denominator>> in   *)
(* lowest terms and no trailing zero coefficient (sympy keeps expressions  *)
(* in canonical form), and integer s, c, e.                                *)
(***************************************************************************)

Abs(n) == IF n < 0 THEN -n ELSE n

RECURSIVE GCD(_, _)
GCD(a, b) == IF b = 0 THEN a ELSE GCD(b, a % b)

Rat(n, d) ==
    LET g == GCD(Abs(n), Abs(d))
        sgn == IF d < 0 THEN -1 ELSE 1
    IN <<sgn * (n \div g), sgn * (d \div g)>>

RatInt(n) == <<n, 1>>

RatZero == RatInt(0)

RatAdd(a, b) == Rat(a[1] * b[2] + b[1] * a[2], a[2] * b[2])

RatNeg(a) == <<-a[1], a[2]>>

RatMul(a, b) == Rat(a[1] * b[1], a[2] * b[2])

RatDivInt(a, k) == Rat(a[1], a[2] * k)

\* drop the zero coefficients at the high end
RECURSIVE Trim(_)
Trim(p) ==
    IF p # <<>> /\ p[Len(p)] = RatZero THEN Trim(SubSeq(p, 1, Len(p) - 1)) ELSE p

\* Expressions outside that family, each a record of its own shape:
\*   [opaque |-> "x**x", d |-> n]   the n-th derivative of x**x, which has no
\*                                  elementary antiderivative
\*   [integral |-> f]               sympy's unevaluated Integral(f, x)
\*   [integral |-> f, from, to]     sympy's unevaluated Integral(f, (x, from, to))
\*   [rc |-> c, m |-> m]            c * x**(-m), m >= 1 (1/x and its derivatives)
\*   [lg |-> c]                     c * log(x)
XToTheX == [opaque |-> "x**x", d |-> 0]

Reciprocal == [rc |-> RatInt(1), m |-> 1]

IsClosedForm(f) == "p" \in DOMAIN f

IsOpaque(f) == "opaque" \in DOMAIN f

IsUnevaluated(f) == "integral" \in DOMAIN f

IsPower(f) == "rc" \in DOMAIN f

IsLog(f) == "lg" \in DOMAIN f

\* sp.diff(derivative, x) (line 68)
SymDiff(f) ==
    IF IsUnevaluated(f) THEN f.integral
    ELSE IF IsOpaque(f) THEN [f EXCEPT !.d = @ + 1]
    ELSE IF IsPower(f) THEN [rc |-> RatMul(RatInt(-f.m), f.rc), m |-> f.m + 1]
    ELSE IF IsLog(f) THEN [rc |-> f.lg, m |-> 1]
    ELSE
    [ p |-> Trim([k \in 1..(Len(f.p) - 1) |-> RatMul(RatInt(k), f.p[k + 1])]),
      s |-> -f.c,
      c |-> f.s,
      e |-> f.e ]

\* sp.integrate(expr, x) (line 106): the antiderivative sympy returns, which
\* has no constant term
SymIntegrate(f) ==
    IF IsOpaque(f) THEN [integral |-> f]
    ELSE IF IsPower(f) THEN
        (IF f.m = 1 THEN [lg |-> f.rc]
         ELSE [rc |-> RatDivInt(f.rc, 1 - f.m), m |-> f.m - 1])
    ELSE
    [ p |-> Trim([k \in 1..(Len(f.p) + 1) |->
                     IF k = 1 THEN RatZero ELSE RatDivInt(f.p[k - 1], k - 1)]),
      s |-> f.c,
      c |-> -f.s,
      e |-> f.e ]

\* the value of the polynomial part at the rational a
RECURSIVE PolyEval(_, _)
PolyEval(p, a) ==
    IF p = <<>> THEN RatZero
    ELSE RatAdd(Head(p), RatMul(a, PolyEval(Tail(p), a)))

\* sp.integrate(expr, (x, lower_bound, upper_bound)) (line 102): the exact value
\* F(upper) - F(lower); the transcendental part stays symbolic, as the
\* differences s*(sin(upper) - sin(lower)) and so on
SymIntegrateDefinite(f, lower_bound, upper_bound) ==
    LET F == SymIntegrate(f) IN
    IF IsOpaque(f) THEN [integral |-> f, from |-> lower_bound, to |-> upper_bound]
    ELSE
    [ value |-> RatAdd(PolyEval(F.p, upper_bound), RatNeg(PolyEval(F.p, lower_bound))),
      s |-> F.s, c |-> F.c, e |-> F.e,
      from |-> lower_bound, to |-> upper_bound ]

\* lines 66-69: for _ in range(order): derivative = sp.diff(derivative, x)
RECURSIVE DiffLoop(_, _)
DiffLoop(derivative, remaining) ==
    IF remaining <= 0 THEN derivative
    ELSE DiffLoop(SymDiff(derivative), remaining - 1)

\* the loop run once more than asked (range(order + 1))
compute_derivative_OffByOne(f, order) == DiffLoop(f, order + 1)

\* a single sp.diff whatever the order
compute_derivative_IgnoresOrder(f, order) == IF order <= 0 THEN f ELSE SymDiff(f)

compute_derivative(f, order) == DiffLoop(f, order)

\* Python's None for an absent bound; a bound that is given is a rational
NoBound == <<>>

\* the antiderivative with a constant of integration added
compute_integral_AddsConstant(f, lower_bound, upper_bound) ==
    IF lower_bound # NoBound /\ upper_bound # NoBound
    THEN SymIntegrateDefinite(f, lower_bound, upper_bound)
    ELSE IF IsClosedForm(f)
    THEN [SymIntegrate(f) EXCEPT !.p = Trim(<<RatInt(1)>> \o Tail(@ \o <<RatZero>>))]
    ELSE SymIntegrate(f)

\* the two bounds handed to sp.integrate in the wrong order
compute_integral_SwappedBounds(f, lower_bound, upper_bound) ==
    IF lower_bound # NoBound /\ upper_bound # NoBound
    THEN SymIntegrateDefinite(f, upper_bound, lower_bound)
    ELSE SymIntegrate(f)

\* an incomplete pair of bounds refused instead of ignored
compute_integral_RejectsOneBound(f, lower_bound, upper_bound) ==
    IF lower_bound # NoBound /\ upper_bound # NoBound
    THEN SymIntegrateDefinite(f, lower_bound, upper_bound)
    ELSE IF lower_bound # NoBound \/ upper_bound # NoBound
    THEN [raised |-> TRUE, error |-> "ValueError"]
    ELSE SymIntegrate(f)

\* lines 98-106
compute_integral(f, lower_bound, upper_bound) ==
    IF lower_bound # NoBound /\ upper_bound # NoBound
    THEN SymIntegrateDefinite(f, lower_bound, upper_bound)
    ELSE SymIntegrate(f)

(***************************************************************************)
(* Classifier requests: a text is entered, then classified.                *)
(***************************************************************************)

MaxClassifyToks == 3

ClassifyVocab ==
    { <<"s","i","n","(","x",")">>,
      <<"S","I","N","(","X",")">>,
      <<"c","o","t","(","x",")">>,
      <<"e","x","p","(","x",")">>,
      <<"e","x","p">>,
      <<"l","o","g","(","x",")">>,
      <<"l","n","(","x",")">>,
      <<"x">>,
      <<"2">>,
      <<"x","*","*","2">>,
      <<"x","*","*","-","1">>,
      <<"x","*","*">>,
      <<"2","*","*","x">>,
      <<"/">>,
      <<"+">>,
      <<"^">>,
      <<" ">> }

TokSeqs(vocab, n) == UNION { [1..k -> vocab] : k \in 0..n }

InitClassify ==
    /\ pc = "entered"
    /\ \E toks \in TokSeqs(ClassifyVocab, MaxClassifyToks) : text = Flatten(toks)
    /\ cls = None
    /\ parsed = None
    /\ expr = None
    /\ mid = None
    /\ result = None
    /\ orders = <<>>
    /\ request = None
    /\ bundle = None
    /\ ui = None
    /\ history = <<>>
    /\ calls = <<>>
    /\ registries = None

\* get_function_explanation / analyze_function call classify_function(expr_str)
Classify ==
    /\ pc = "entered"
    /\ cls' = classify_function(text)
    /\ pc' = "classified"
    /\ UNCHANGED <<text, parsed, expr, mid, result, orders, request, bundle, ui, history, calls, registries>>

\* explanation = get_function_explanation(expr_str)
Explain ==
    /\ pc = "entered"
    /\ result' = get_function_explanation(text)
    /\ pc' = "explained"
    /\ UNCHANGED <<text, cls, parsed, expr, mid, orders, request, bundle, ui, history, calls, registries>>

NextClassify == Classify \/ Explain

SpecClassify == InitClassify /\ [][NextClassify]_vars

(***************************************************************************)
(* C1, C2: the rules of the classifier, stated on the lower-cased text.    *)
(***************************************************************************)

HasAny(s, pats) == \E p \in pats : Contains(s, p)

Rule1Trig(s) ==
    HasAny(s, { <<"s","i","n">>, <<"c","o","s">>, <<"t","a","n">>,
                <<"s","e","c">>, <<"c","s","c">>, <<"c","o","t">> })

\* rule 2 as the claim words it: `exp(` or the power operator
Rule2AsClaimed(s) == HasAny(s, { <<"e","x","p","(">>, <<"*","*">> })

\* rule 2 as amended: the bare substring `exp`, or `**`; a caret is not counted
Rule2Amended(s) == HasAny(s, { <<"e","x","p">>, <<"*","*">> })

Rule3Log(s) == HasAny(s, { <<"l","o","g">>, <<"l","n">> })

Rule4Division(s) == HasAny(s, { <<"/">> })

\* the class the ordered rule list assigns, given the reading of rule 2
RuleListAllows(c, r1, r2, r3, r4) ==
    IF r1 THEN c = "trigonometric"
    ELSE IF r2 THEN c \in {"polynomial", "exponential"}
    ELSE IF r3 THEN c = "logarithmic"
    ELSE IF r4 THEN c = "rational"
    ELSE c = "polynomial"

\* C1 (as claimed): the first matching rule decides, rule 2 being "`exp(` or an
\* exponent operator present".
C1_Original ==
    pc = "classified" =>
        LET s == Lower(text) IN
        RuleListAllows(cls, Rule1Trig(s), Rule2AsClaimed(s), Rule3Log(s), Rule4Division(s))

\* C1 (amended): the first matching rule decides the class, in the order trig
\* name, `exp` or `**`, `log`/`ln`, `/`, default polynomial, where rule 2 fires
\* on the substring `exp` with or without a parenthesis and on `**` only.
C1_Precedence ==
    pc = "classified" =>
        LET s == Lower(text) IN
        RuleListAllows(cls, Rule1Trig(s), Rule2Amended(s), Rule3Log(s), Rule4Division(s))

\* a text with a trig name, a power, a logarithm and a division is trigonometric,
\* and `x/2` is rational
C1_Witness ==
    /\ pc = "classified"
    /\ \/ /\ Rule1Trig(Lower(text))
          /\ Rule4Division(Lower(text))
          /\ Rule2Amended(Lower(text))
          /\ cls = "trigonometric"
       \/ /\ text = <<"x", "/", "2">>
          /\ cls = "rational"

\* the power-of-variable terms of s: the positions where `x**` starts
PowerTermStarts(s) == { i \in 1..Len(s) : StartsAt(s, i, XPower) }

\* the exponent of the term at i is a non-negative integer literal
IntegerLiteralPower(s, i) ==
    LET e == DigitRunEnd(s, i + 3) IN
    /\ e >= i + 3
    /\ ~ StartsAt(s, e + 1, <<".">>)

\* C2: under rule 2 the class is polynomial only when every power-of-variable
\* term is `x ** non-negative-integer-literal` and the text has no `exp(`;
\* otherwise it is exponential.
C2_Original ==
    pc = "classified" =>
        LET s == Lower(text) IN
        (~ Rule1Trig(s) /\ Rule2AsClaimed(s)) =>
            /\ cls \in {"polynomial", "exponential"}
            /\ cls = "polynomial" =>
                   /\ \A i \in PowerTermStarts(s) : IntegerLiteralPower(s, i)
                   /\ ~ Contains(s, <<"e","x","p","(">>)

FunctionClasses == {"polynomial", "trigonometric", "exponential", "logarithmic", "rational"}

\* C24: classify returns exactly one of the five tags for every text, and the
\* registry entry of that tag has an explanation, at least one example and a
\* properties text, so the lookup never falls back to the default bundle.
C24_CompleteBundle ==
    /\ pc = "classified" => cls \in FunctionClasses
    /\ pc = "explained" =>
          /\ DOMAIN result = {"explanation", "examples", "properties"}
          /\ Len(result.examples) >= 1
          /\ result.explanation # DefaultExplanation.explanation
          /\ \E tag \in FunctionClasses : result = FUNCTION_EXPLANATIONS[tag]

\* the empty text, which meets none of the tests, is explained as a polynomial
C24_Witness ==
    /\ pc = "explained"
    /\ text = <<>>
    /\ result.examples[1] = "x**2 - 4*x + 4"

(***************************************************************************)
(* Parser requests: a text is entered, then parsed.                        *)
(***************************************************************************)

MaxParseToks == 3

ParseVocab ==
    { <<"s","i","n","(","x",")">>,
      <<"c","o","s","(","x",")">>,
      <<"s","i","n","h","(","x",")">>,
      <<"s","i","n">>,
      <<"a","b","s">>,
      <<"x">>,
      <<"y">>,
      <<"1">>,
      <<"2">>,
      <<" ","+"," ">>,
      <<"^">>,
      <<"*","*">>,
      <<"(">>,
      <<")">>,
      <<".">>,
      <<"a","r","g","s">>,
      <<"*","*","(","1","/","2",")">>,
      <<" ">> }

InitParse ==
    /\ pc = "entered"
    /\ \E toks \in TokSeqs(ParseVocab, MaxParseToks) : text = Flatten(toks)
    /\ cls = None
    /\ parsed = None
    /\ expr = None
    /\ mid = None
    /\ result = None
    /\ orders = <<>>
    /\ request = None
    /\ bundle = None
    /\ ui = None
    /\ history = <<>>
    /\ calls = <<>>
    /\ registries = None

\* expr = parse_function(function_input)  (app.py:108, desktop_app.py:712)
Parse ==
    /\ pc = "entered"
    /\ parsed' = parse_function(text)
    /\ pc' = "parsed"
    /\ UNCHANGED <<text, cls, expr, mid, result, orders, request, bundle, ui, history, calls, registries>>

(***************************************************************************)
(* What sympify makes of a parsed text, and str() of it.  Covered are the  *)
(* texts made of one operand, or of two operands x or integer joined by    *)
(* +, * or **, and x**(1/2).  The value is c * x**pw + add, with pw the    *)
(* rational exponent; c = 0 is the number add.                             *)
(***************************************************************************)

DigitSeq == <<"0", "1", "2", "3", "4", "5", "6", "7", "8", "9">>

DigitValue(ch) == (CHOOSE d \in 1..10 : DigitSeq[d] = ch) - 1

RECURSIVE CharsToInt(_)
CharsToInt(s) ==
    IF s = <<>> THEN 0
    ELSE 10 * CharsToInt(SubSeq(s, 1, Len(s) - 1)) + DigitValue(s[Len(s)])

RECURSIVE IntToChars(_)
IntToChars(n) ==
    IF n < 10 THEN <<DigitSeq[n + 1]>>
    ELSE IntToChars(n \div 10) \o <<DigitSeq[(n % 10) + 1]>>

RECURSIVE IntPow(_, _)
IntPow(b, k) == IF k = 0 THEN 1 ELSE b * IntPow(b, k - 1)

IsX(tok) == tok = Tok("NAME", <<"x">>)

IsInteger(tok) == tok.k = "NUMBER" /\ \A i \in 1..Len(tok.v) : tok.v[i] \in Digits

IsOperand(tok) == IsX(tok) \/ IsInteger(tok)

Number(n) == [c |-> 0, pw |-> RatZero, add |-> n]

Monomial(c, pw) == IF c = 0 \/ pw = RatZero THEN Number(c) ELSE [c |-> c, pw |-> pw, add |-> 0]

HalfPower ==
    << Tok("NAME", <<"x">>), Tok("OP", <<"*","*">>), Tok("OP", <<"(">>),
       Tok("NUMBER", <<"1">>), Tok("OP", <<"/">>), Tok("NUMBER", <<"2">>), Tok("OP", <<")">>) >>

\* the token sequences whose value is worked out below
Evaluable(tree) ==
    \/ Len(tree) = 1 /\ IsOperand(tree[1])
    \/ /\ Len(tree) = 3
       /\ IsOperand(tree[1])
       /\ IsOperand(tree[3])
       /\ \/ tree[2] \in { Tok("OP", <<"+">>), Tok("OP", <<"*">>) }
          \/ tree[2] = Tok("OP", <<"*","*">>) /\ IsInteger(tree[3])
    \/ tree = HalfPower

Operand(tok) == IF IsX(tok) THEN Monomial(1, RatInt(1)) ELSE Number(CharsToInt(tok.v))

\* sympy's automatic evaluation: like terms are collected, numbers are
\* combined, x**1 is x and x**0 is 1
Evaluate(tree) ==
    IF tree = HalfPower THEN Monomial(1, Rat(1, 2))
    ELSE IF Len(tree) = 1 THEN Operand(tree[1])
    ELSE LET a == Operand(tree[1])
             b == Operand(tree[3])
         IN  IF tree[2] = Tok("OP", <<"+">>)
             THEN IF a.c # 0 /\ b.c # 0 THEN Monomial(a.c + b.c, RatInt(1))
                  ELSE IF a.c # 0 THEN [a EXCEPT !.add = b.add]
                  ELSE IF b.c # 0 THEN [b EXCEPT !.add = a.add]
                  ELSE Number(a.add + b.add)
             ELSE IF tree[2] = Tok("OP", <<"*">>)
             THEN IF a.c # 0 /\ b.c # 0 THEN Monomial(1, RatInt(2))
                  ELSE IF a.c # 0 THEN Monomial(b.add, RatInt(1))
                  ELSE IF b.c # 0 THEN Monomial(a.add, RatInt(1))
                  ELSE Number(a.add * b.add)
             ELSE IF a.c # 0 THEN Monomial(1, RatInt(b.add))
                  ELSE Number(IntPow(a.add, b.add))

\* str(expr): x**(1/2) prints as sqrt(x), a sum prints the term in x first
render(e) ==
    LET power == IF e.pw = RatInt(1) THEN <<"x">>
                 ELSE IF e.pw = Rat(1, 2) THEN <<"s","q","r","t","(","x",")">>
                 ELSE <<"x","*","*">> \o IntToChars(e.pw[1])
        term == IF e.c = 1 THEN power ELSE IntToChars(e.c) \o <<"*">> \o power
    IN  IF e.c = 0 THEN IntToChars(e.add)
        ELSE IF e.add = 0 THEN term
        ELSE term \o <<" ","+"," ">> \o IntToChars(e.add)

\* expr = parse_function(str(expr)): the rendering of a parsed expression is
\* parsed again
Rerender ==
    /\ pc = "parsed"
    /\ parsed.ok
    /\ Evaluable(parsed.tree)
    /\ mid' = Evaluate(parsed.tree)
    /\ result' = parse_function(render(Evaluate(parsed.tree)))
    /\ pc' = "reparsed"
    /\ UNCHANGED <<text, cls, parsed, expr, orders, request, bundle, ui, history, calls, registries>>

NextParse == Parse \/ Rerender

SpecParse == InitParse /\ [][NextParse]_vars

(***************************************************************************)
(* C3 - C7: the parser                                                     *)
(***************************************************************************)

Whitelist ==
    { <<"s","i","n">>, <<"c","o","s">>, <<"t","a","n">>, <<"l","o","g">>,
      <<"e","x","p">>, <<"s","q","r","t">>, <<"a","b","s">> }

\* the text as the user wrote it, cut into tokens (a caret read as the power
\* operator)
RawTokens(t) == Tokenize(ReplaceChar(Strip(t), "^", <<"*","*">>), 1)

Identifiers(t) ==
    LET toks == RawTokens(t) IN
    { toks[i].v : i \in { j \in 1..Len(toks) : toks[j].k = "NAME" } }

\* C3: a text with an identifier that is neither x nor a whitelisted function
\* name fails to parse.
C3_Original ==
    (pc = "parsed" /\ \E id \in Identifiers(text) : id \notin Whitelist \cup {<<"x">>})
        => ~ parsed.ok

\* well-formed text over numbers, x, the arithmetic operators and calls of the
\* whitelisted functions
WellFormedSupported(t) ==
    LET toks == RawTokens(t) IN
    /\ SyntaxOK(toks)
    /\ \A i \in 1..Len(toks) :
          LET called == i < Len(toks) /\ IsOp(toks[i + 1], <<"(">>) IN
          /\ toks[i].k = "NAME" => toks[i].v \in Whitelist \cup {<<"x">>}
          /\ (toks[i].k = "NAME" /\ toks[i].v \in Whitelist) => called
          /\ (toks[i].k = "NAME" /\ toks[i].v = <<"x">>) => ~ called
          /\ toks[i].k = "NUMBER" => ~ called
          /\ IsOp(toks[i], <<")">>) => ~ called
          /\ ~ IsOp(toks[i], <<".">>)
          /\ ~ IsOp(toks[i], <<",">>)

\* C4: every well-formed text over the supported vocabulary parses to an
\* expression; in particular "sin(x) + cos(x)" does.
C4_Original ==
    (pc = "parsed" /\ WellFormedSupported(text))
        => (parsed.ok /\ parsed.kind \in {"expr", "number"})

\* the rewriting described by whole words: the text is cut into maximal runs of
\* word characters, and a run is replaced only when it is, as a whole, a
\* whitelisted name
WholeWordReplacement(run) ==
    IF run \in Whitelist
    THEN SpDot \o (IF run = <<"a","b","s">> THEN <<"A","b","s">> ELSE run)
    ELSE run

RECURSIVE RewriteByRuns(_, _)
RewriteByRuns(s, i) ==
    IF i > Len(s) THEN <<>>
    ELSE IF s[i] \in WordChars
         THEN WholeWordReplacement(SubSeq(s, i, WordRunEnd(s, i)))
                  \o RewriteByRuns(s, WordRunEnd(s, i) + 1)
         ELSE <<s[i]>> \o RewriteByRuns(s, i + 1)

\* t with every `^` replaced by `**`
RECURSIVE CaretsReplaced(_)
CaretsReplaced(t) ==
    IF t = <<>> THEN <<>>
    ELSE IF Head(t) = "^" THEN <<"*","*">> \o CaretsReplaced(Tail(t))
    ELSE <<Head(t)>> \o CaretsReplaced(Tail(t))

\* C5: the function-name rewriting is whole-word only: a whitelisted name is
\* rewritten only where it is a complete run of word characters, and a longer
\* identifier containing it (sinh) reaches the algebraic parser unchanged.
C5_WholeWord ==
    pc = "parsed" => parsed.handed = CaretsReplaced(RewriteByRuns(Strip(text), 1))

\* sinh(x) next to sin(x): only the latter is rewritten
C5_Witness ==
    /\ pc = "parsed"
    /\ text = <<"s","i","n","h","(","x",")", " ","+"," ", "s","i","n","(","x",")">>
    /\ parsed.handed = <<"s","i","n","h","(","x",")", " ","+"," ",
                         "s","p",".","s","i","n","(","x",")">>

\* C6: parse(t) and parse(t with every ^ replaced by **) give the same outcome,
\* the same expression or a failure in both cases.
C6_CaretNormalization ==
    pc = "parsed" =>
        LET other == parse_function(CaretsReplaced(text)) IN
        /\ parsed.ok = other.ok
        /\ parsed.tree = other.tree
        /\ parsed.kind = other.kind

\* x^2 parses, to the tree of x**2
C6_Witness ==
    /\ pc = "parsed"
    /\ text = <<"x", "^", "2">>
    /\ parsed.ok
    /\ parsed.tree = <<Tok("NAME", <<"x">>), Tok("OP", <<"*","*">>), Tok("NUMBER", <<"2">>)>>

\* C7: parsing only builds an expression tree or fails: it looks up no
\* attribute of a runtime object, and what it returns is an expression.
C7_Original ==
    pc = "parsed" =>
        /\ parsed.attrs = {}
        /\ parsed.ok => parsed.kind \in {"expr", "number"}

(***************************************************************************)
(* Engine requests: an expression is differentiated (and the derivative    *)
(* differentiated again), or integrated (and the integral differentiated). *)
(***************************************************************************)

MaxDegree == 2

MaxOrder == 2

Coefs == {-4, -1, 0, 1, 4}

TrigCoefs == {-1, 0, 1}

Orders == -1..MaxOrder

Polys == { Trim([k \in 1..(MaxDegree + 1) |-> RatInt(a[k])]) :
               a \in [1..(MaxDegree + 1) -> Coefs] }

Exprs == { [p |-> q, s |-> s, c |-> c, e |-> 0] : q \in Polys, s \in TrigCoefs, c \in TrigCoefs }
             \cup { [p |-> q, s |-> 0, c |-> 0, e |-> 1] : q \in Polys }
             \cup { XToTheX }

\* the integration bounds tried: -1, 1/2 and 2
BoundValues == { RatInt(-1), Rat(1, 2), RatInt(2) }

InitEngine ==
    /\ pc = "ready"
    /\ expr \in Exprs
    /\ mid = None
    /\ result = None
    /\ orders = <<>>
    /\ request = None
    /\ bundle = None
    /\ ui = None
    /\ history = <<>>
    /\ calls = <<>>
    /\ registries = None
    /\ text = <<>>
    /\ cls = None
    /\ parsed = None

\* derivative = compute_derivative(expr, derivative_order)  (app.py, desktop_app.py)
Differentiate ==
    /\ pc = "ready"
    /\ \E order \in Orders :
          /\ mid' = compute_derivative(expr, order)
          /\ orders' = <<order>>
    /\ pc' = "differentiated"
    /\ UNCHANGED <<text, cls, parsed, expr, result, request, bundle, ui, history, calls, registries>>

\* the derivative handed to compute_derivative again
DifferentiateAgain ==
    /\ pc = "differentiated"
    /\ \E order \in Orders :
          /\ result' = compute_derivative(mid, order)
          /\ orders' = Append(orders, order)
    /\ pc' = "differentiated_twice"
    /\ UNCHANGED <<text, cls, parsed, expr, mid, request, bundle, ui, history, calls, registries>>

\* integral = compute_integral(expr)
Integrate ==
    /\ pc = "ready"
    /\ mid' = compute_integral(expr, NoBound, NoBound)
    /\ pc' = "integrated"
    /\ UNCHANGED <<text, cls, parsed, expr, result, orders, request, bundle, ui, history, calls, registries>>

\* compute_derivative(compute_integral(expr), 1)
DifferentiateIntegral ==
    /\ pc = "integrated"
    /\ result' = compute_derivative(mid, 1)
    /\ orders' = <<1>>
    /\ pc' = "round_trip"
    /\ UNCHANGED <<text, cls, parsed, expr, mid, request, bundle, ui, history, calls, registries>>

\* compute_integral(expr, lower_bound, upper_bound) with both bounds given
IntegrateDefinite ==
    /\ pc = "ready"
    /\ \E lower_bound \in BoundValues, upper_bound \in BoundValues :
          /\ request' = [lower_bound |-> lower_bound, upper_bound |-> upper_bound]
          /\ mid' = compute_integral(expr, lower_bound, upper_bound)
    /\ pc' = "integrated_definite"
    /\ UNCHANGED <<text, cls, parsed, expr, result, orders, bundle, ui, history, calls, registries>>

\* compute_integral(expr, lower_bound) or compute_integral(expr, upper_bound=...):
\* one bound given, the other left at None
IntegrateOneBound ==
    /\ pc = "ready"
    /\ \E given \in BoundValues :
          \E pair \in { [lower_bound |-> given, upper_bound |-> NoBound],
                         [lower_bound |-> NoBound, upper_bound |-> given] } :
              /\ request' = pair
              /\ mid' = compute_integral(expr, pair.lower_bound, pair.upper_bound)
    /\ pc' = "integrated_one_bound"
    /\ UNCHANGED <<text, cls, parsed, expr, result, orders, bundle, ui, history, calls, registries>>

NextEngine ==
    \/ IntegrateOneBound
    \/ Differentiate
    \/ DifferentiateAgain
    \/ Integrate
    \/ DifferentiateIntegral
    \/ IntegrateDefinite

SpecEngine == InitEngine /\ [][NextEngine]_vars

(***************************************************************************)
(* C8 - C10: differentiation and integration                               *)
(***************************************************************************)

\* n * (n-1) * ... * (n-k+1)
RECURSIVE Falling(_, _)
Falling(n, k) == IF k = 0 THEN 1 ELSE n * Falling(n - 1, k - 1)

\* the n-th derivative in closed form: x**j becomes j!/(j-n)! * x**(j-n), and
\* sin, cos cycle with period 4
NthDerivative(f, n) ==
    IF IsOpaque(f) THEN [f EXCEPT !.d = @ + n]
    ELSE IF IsPower(f)
    THEN \* c * x**(-m) becomes c * (-1)**n * (m+n-1)!/(m-1)! * x**(-m-n)
         [ rc |-> RatMul(RatInt((IF n % 2 = 0 THEN 1 ELSE -1) * Falling(f.m + n - 1, n)), f.rc),
           m |-> f.m + n ]
    ELSE
    [ p |-> Trim([j \in 1..(Len(f.p) - n) |->
                     RatMul(RatInt(Falling(j - 1 + n, n)), f.p[j + n])]),
      s |-> CASE n % 4 = 0 -> f.s  [] n % 4 = 1 -> -f.c
              [] n % 4 = 2 -> -f.s [] n % 4 = 3 -> f.c,
      c |-> CASE n % 4 = 0 -> f.c  [] n % 4 = 1 -> f.s
              [] n % 4 = 2 -> -f.c [] n % 4 = 3 -> -f.s,
      e |-> f.e ]

\* C8: differentiate(e, order) is differentiation applied exactly `order` times;
\* for order <= 0 the expression comes back unchanged; and for a, b >= 1
\* differentiate(differentiate(e, a), b) = differentiate(e, a + b).
C8_OrderTimes ==
    /\ pc = "differentiated" =>
          IF orders[1] <= 0 THEN mid = expr
          ELSE mid = NthDerivative(expr, orders[1])
    /\ (pc = "differentiated_twice" /\ orders[1] >= 1 /\ orders[2] >= 1) =>
          /\ result = compute_derivative(expr, orders[1] + orders[2])
          /\ result = NthDerivative(expr, orders[1] + orders[2])

\* x**2 + sin(x) differentiated once and then twice: -cos(x), the third derivative
C8_Witness ==
    /\ pc = "differentiated_twice"
    /\ orders = <<1, 2>>
    /\ expr = [p |-> <<RatZero, RatZero, RatInt(1)>>, s |-> 1, c |-> 0, e |-> 0]
    /\ result = [p |-> <<>>, s |-> 0, c |-> -1, e |-> 0]

IsPolynomial(f) == IsClosedForm(f) /\ f.s = 0 /\ f.c = 0 /\ f.e = 0

\* C9: on a polynomial sum c_k x**k, differentiate(_, 1) is sum k*c_k x**(k-1)
\* and integrate(_) is sum c_k/(k+1) x**(k+1) with no additive constant;
\* x**2 - 4*x + 4 gives 2*x - 4 and x**3/3 - 2*x**2 + 4*x.
C9_PowerRules ==
    /\ (pc = "differentiated" /\ orders = <<1>> /\ IsPolynomial(expr)) =>
          /\ IsPolynomial(mid)
          /\ Len(mid.p) <= Len(expr.p)
          /\ \A k \in 1..Len(expr.p) :
                (IF k <= Len(mid.p) THEN mid.p[k] ELSE RatZero)
                    = (IF k < Len(expr.p) THEN RatMul(RatInt(k), expr.p[k + 1]) ELSE RatZero)
          /\ expr.p = <<RatInt(4), RatInt(-4), RatInt(1)>>
                => mid.p = <<RatInt(-4), RatInt(2)>>
    /\ (pc = "integrated" /\ IsPolynomial(expr)) =>
          /\ IsPolynomial(mid)
          /\ Len(mid.p) <= Len(expr.p) + 1
          /\ \A k \in 0..Len(expr.p) :
                (IF k + 1 <= Len(mid.p) THEN mid.p[k + 1] ELSE RatZero)
                    = (IF k = 0 THEN RatZero ELSE Rat(expr.p[k][1], expr.p[k][2] * k))
          /\ expr.p = <<RatInt(4), RatInt(-4), RatInt(1)>>
                => mid.p = <<RatZero, RatInt(4), RatInt(-2), <<1, 3>> >>

\* the integral of x**2 - 4*x + 4
C9_Witness ==
    /\ pc = "integrated"
    /\ expr = [p |-> <<RatInt(4), RatInt(-4), RatInt(1)>>, s |-> 0, c |-> 0, e |-> 0]
    /\ mid.p = <<RatZero, RatInt(4), RatInt(-2), <<1, 3>> >>

\* C10: differentiate(integrate(expr), 1) = expr.
C10_RoundTrip ==
    pc = "round_trip" => result = expr

\* a polynomial of full degree whose integral has a fractional coefficient
C10_Witness ==
    /\ pc = "round_trip"
    /\ IsClosedForm(expr)
    /\ Len(expr.p) = MaxDegree + 1
    /\ \E k \in 1..Len(mid.p) : mid.p[k][2] # 1
    /\ result = expr

(***************************************************************************)
(* C25: parsing the rendering of a parsed expression                       *)
(***************************************************************************)

\* C25 as stated: for every expression e obtained by parse, parse(render(e))
\* succeeds and is structurally equal to e.
C25_Original ==
    pc = "reparsed" =>
        /\ result.ok
        /\ Evaluable(result.tree)
        /\ Evaluate(result.tree) = mid

(***************************************************************************)
(* C11 - C12: the two modes of integration, and integrals without a        *)
(* closed form                                                             *)
(***************************************************************************)

RECURSIVE RatPow(_, _)
RatPow(a, k) == IF k = 0 THEN RatInt(1) ELSE RatMul(a, RatPow(a, k - 1))

\* sum over the terms c * x**(k-1) of c * (upper**k - lower**k) / k
RECURSIVE DefiniteSum(_, _, _, _)
DefiniteSum(p, k, lower, upper) ==
    IF k > Len(p) THEN RatZero
    ELSE RatAdd(RatDivInt(RatMul(p[k], RatAdd(RatPow(upper, k), RatNeg(RatPow(lower, k)))), k),
                DefiniteSum(p, k + 1, lower, upper))

HasNoConstant(F) == F.p = <<>> \/ F.p[1] = RatZero

\* C11: integrate(expr, lower, upper) selects its mode from the bounds: with
\* both bounds it returns the definite integral over [lower, upper]; with no
\* bounds it returns the indefinite integral, an expression without an
\* additive constant.
C11_ModeFromBounds ==
    /\ pc = "integrated_definite" =>
          /\ mid.from = request.lower_bound
          /\ mid.to = request.upper_bound
          /\ IsClosedForm(expr) =>
                /\ mid.value = DefiniteSum(expr.p, 1, request.lower_bound, request.upper_bound)
                /\ mid.s = expr.c
                /\ mid.c = -expr.s
                /\ mid.e = expr.e
    /\ pc = "integrated" =>
          /\ "from" \notin DOMAIN mid
          /\ IsClosedForm(expr) =>
                /\ IsClosedForm(mid)
                /\ HasNoConstant(mid)
                /\ NthDerivative(mid, 1) = expr

\* x**2 - 4*x + 4 over [-1, 2]: the value is 9
C11_Witness ==
    /\ pc = "integrated_definite"
    /\ expr = [p |-> <<RatInt(4), RatInt(-4), RatInt(1)>>, s |-> 0, c |-> 0, e |-> 0]
    /\ request = [lower_bound |-> RatInt(-1), upper_bound |-> RatInt(2)]
    /\ mid.value = RatInt(9)

\* C12 as stated: when the expression has no elementary closed-form integral,
\* integrate signals a distinct IntegrationError and never returns normally
\* with an unevaluated integral.
C12_Original ==
    (pc \in {"integrated", "integrated_definite"} /\ IsOpaque(expr)) =>
        /\ ~IsUnevaluated(mid)
        /\ "error" \in DOMAIN mid
        /\ mid.error = "IntegrationError"

\* C30: compute_integral called with exactly one of the two bounds ignores
\* that bound and returns the indefinite integral, the same as the call with
\* no bounds; it raises no error for the incomplete pair.
C30_OneBoundIgnored ==
    pc = "integrated_one_bound" =>
        /\ "raised" \notin DOMAIN mid
        /\ "from" \notin DOMAIN mid
        /\ mid = SymIntegrate(expr)
        /\ IsClosedForm(expr) => HasNoConstant(mid) /\ NthDerivative(mid, 1) = expr

\* x**2 - 4*x + 4 with only the lower bound 2: x**3/3 - 2*x**2 + 4*x
C30_Witness ==
    /\ pc = "integrated_one_bound"
    /\ request = [lower_bound |-> RatInt(2), upper_bound |-> NoBound]
    /\ expr = [p |-> <<RatInt(4), RatInt(-4), RatInt(1)>>, s |-> 0, c |-> 0, e |-> 0]
    /\ mid.p = <<RatZero, RatInt(4), RatInt(-2), Rat(1, 3)>>

(***************************************************************************)
(* The numeric sampler (function_utils.py, evaluate_function).             *)
(*                                                                         *)
(* A float is a pair <<n, d>>: the rational n/d when d > 0, and the three  *)
(* IEEE specials when d = 0.  A triple <<n, d, 1>> is the finite float     *)
(* log(n/d).  What a call produces is a record: [raised |-> TRUE] when it  *)
(* raised, [array |-> values] for an ndarray, [scalar |-> v] for one       *)
(* number.  A callable is tabulated over the grid it is given: `vec` is    *)
(* what func(x_range) produces, `pt[i]` what func(x_range[i]) produces.    *)
(***************************************************************************)

NaN == <<0, 0>>

PosInf == <<1, 0>>

NegInf == <<-1, 0>>

IsFinite(v) == v[2] # 0

Raised == [raised |-> TRUE]

DidRaise(outcome) == "raised" \in DOMAIN outcome

IsArray(a) == "array" \in DOMAIN a

ArrayCall == [arg |-> "array", index |-> 0]

PointCall(i) == [arg |-> "point", index |-> i]

\* the loop of lines 139-144 left at the first failing point, the entries
\* after it still the zeros of np.zeros_like
evaluate_function_AbortsOnFailure(func, x_range) ==
    IF ~DidRaise(func.vec) THEN [returned |-> func.vec, calls |-> <<ArrayCall>>]
    ELSE IF IsArray(x_range)
    THEN LET n == Len(x_range.array)
             failed(i) == \E j \in 1..i : DidRaise(func.pt[j])
         IN [ returned |-> [array |-> [i \in 1..n |->
                                IF DidRaise(func.pt[i]) THEN NaN
                                ELSE IF failed(i) THEN RatZero
                                ELSE func.pt[i].scalar]],
              calls |-> <<ArrayCall>> \o [i \in 1..n |-> PointCall(i)] ]
    ELSE [returned |-> [scalar |-> NaN], calls |-> <<ArrayCall>>]

\* the point-by-point loop run without trying func(x_range) first
evaluate_function_PointwiseFirst(func, x_range) ==
    IF IsArray(x_range)
    THEN LET n == Len(x_range.array)
         IN [ returned |-> [array |-> [i \in 1..n |->
                                IF DidRaise(func.pt[i]) THEN NaN ELSE func.pt[i].scalar]],
              calls |-> [i \in 1..n |-> PointCall(i)] ]
    ELSE [returned |-> (IF DidRaise(func.vec) THEN [scalar |-> NaN] ELSE func.vec),
          calls |-> <<ArrayCall>>]

\* lines 134-147; `calls` lists the calls of func in the order they are made
evaluate_function(func, x_range) ==
    IF ~DidRaise(func.vec)
    THEN \* line 136: return func(x_range)
         [returned |-> func.vec, calls |-> <<ArrayCall>>]
    ELSE IF IsArray(x_range)
    THEN \* lines 139-145
         LET n == Len(x_range.array)
         IN [ returned |-> [array |-> [i \in 1..n |->
                                IF DidRaise(func.pt[i]) THEN NaN ELSE func.pt[i].scalar]],
              calls |-> <<ArrayCall>> \o [i \in 1..n |-> PointCall(i)] ]
    ELSE \* line 147
         [returned |-> [scalar |-> NaN], calls |-> <<ArrayCall>>]

(***************************************************************************)
(* Sampler requests: a callable and the points to evaluate it at.          *)
(***************************************************************************)

MaxPoints == 3

SampleValues == { RatInt(-3), Rat(1, 2), PosInf }

PointOutcomes == { Raised } \cup { [scalar |-> v] : v \in SampleValues }

\* func(x_range) raises when it raises at some point of x_range, and may
\* raise although no single point does (a callable that is not vectorised);
\* a callable that ignores its argument returns one number for the whole array
VecOutcomes(pt) ==
    { Raised }
        \cup (IF \E i \in 1..Len(pt) : DidRaise(pt[i]) THEN {}
              ELSE { [array |-> [i \in 1..Len(pt) |-> pt[i].scalar]] }
                       \cup (IF \A i \in 1..Len(pt) : pt[i] = pt[1] THEN { pt[1] } ELSE {}))

InitSample ==
    /\ pc = "sample_ready"
    /\ \/ \E n \in 1..MaxPoints : \E pt \in [1..n -> PointOutcomes] : \E vec \in VecOutcomes(pt) :
             request = [ func |-> [vec |-> vec, pt |-> pt],
                         x_range |-> [array |-> [i \in 1..n |-> RatInt(i - 1)]] ]
       \/ \E out \in PointOutcomes :
             request = [ func |-> [vec |-> out, pt |-> <<out>>],
                         x_range |-> [scalar |-> RatZero] ]
    /\ bundle = None
    /\ ui = None
    /\ history = <<>>
    /\ calls = <<>>
    /\ registries = None
    /\ text = <<>>
    /\ cls = None
    /\ parsed = None
    /\ expr = None
    /\ mid = None
    /\ result = None
    /\ orders = <<>>

\* evaluate_function(func, x_range)
Sample ==
    /\ pc = "sample_ready"
    /\ bundle' = evaluate_function(request.func, request.x_range)
    /\ pc' = "sampled"
    /\ UNCHANGED <<text, cls, parsed, expr, mid, result, orders, request, ui, history, calls, registries>>

NextSample == Sample

SpecSample == InitSample /\ [][NextSample]_vars

(***************************************************************************)
(* C14 - C15: the sampler                                                  *)
(***************************************************************************)

FailsAt(i) == DidRaise(request.func.pt[i])

\* C14: whenever the evaluator fails at some grid points, the returned samples
\* still have one entry per grid point, are not-a-number exactly at the
\* indices where evaluation failed, and carry the evaluator's value at every
\* other index.
C14_FailureIsolation ==
    (/\ pc = "sampled"
     /\ IsArray(request.x_range)
     /\ \E i \in 1..Len(request.x_range.array) : FailsAt(i)) =>
        /\ IsArray(bundle.returned)
        /\ Len(bundle.returned.array) = Len(request.x_range.array)
        /\ \A i \in 1..Len(request.x_range.array) :
              /\ (bundle.returned.array[i] = NaN) <=> FailsAt(i)
              /\ ~FailsAt(i) => bundle.returned.array[i] = request.func.pt[i].scalar

\* a failure at the middle one of three points
C14_Witness ==
    /\ pc = "sampled"
    /\ request.func.pt = <<[scalar |-> Rat(1, 2)], Raised, [scalar |-> RatInt(-3)]>>
    /\ bundle.returned = [array |-> <<Rat(1, 2), NaN, RatInt(-3)>>]

\* C15: the whole-array call is always made first; point-by-point calls are
\* made only after it and only if it raised; when it returns normally its
\* result is returned as it is and no point is evaluated on its own.
C15_VectorisedFirst ==
    pc = "sampled" =>
        /\ Len(bundle.calls) >= 1
        /\ bundle.calls[1].arg = "array"
        /\ \A k \in 2..Len(bundle.calls) :
              /\ bundle.calls[k].arg = "point"
              /\ DidRaise(request.func.vec)
        /\ ~DidRaise(request.func.vec) =>
              /\ bundle.returned = request.func.vec
              /\ Len(bundle.calls) = 1

\* a callable that raises on the array though on no single point: both points
\* are then evaluated, after the array call
C15_Witness ==
    /\ pc = "sampled"
    /\ request.func.vec = Raised
    /\ request.func.pt = <<[scalar |-> Rat(1, 2)], [scalar |-> PosInf]>>
    /\ bundle.calls = <<ArrayCall, PointCall(1), PointCall(2)>>
    /\ bundle.returned = [array |-> <<Rat(1, 2), PosInf>>]

(***************************************************************************)
(* Plot data (visualization.py, generate_plot_data): the grid, the three   *)
(* compiled callables and their samples.  The requests draw the expression *)
(* from polynomials and 1/x, whose derivatives are powers c * x**(-m) and  *)
(* whose integral is log(x).                                               *)
(***************************************************************************)

\* np.linspace over num + 1 points
Linspace_ExtraPoint(start, stop, num) ==
    LET step == RatDivInt(RatAdd(stop, RatNeg(start)), num)
    IN  [i \in 1..(num + 1) |-> RatAdd(start, RatMul(RatInt(i - 1), step))]

\* np.linspace(start, stop, num, endpoint=False)
Linspace_NoEndpoint(start, stop, num) ==
    LET step == RatDivInt(RatAdd(stop, RatNeg(start)), num)
    IN  [i \in 1..num |-> RatAdd(start, RatMul(RatInt(i - 1), step))]

\* np.linspace(start, stop, num) (line 32): step = (stop - start) / (num - 1),
\* y = arange(num) * step + start, and the last entry set to stop when num > 1
Linspace(start, stop, num) ==
    IF num <= 0 THEN <<>>
    ELSE IF num = 1 THEN <<start>>
    ELSE LET step == RatDivInt(RatAdd(stop, RatNeg(start)), num - 1)
         IN  [i \in 1..num |->
                 IF i = num THEN stop ELSE RatAdd(start, RatMul(RatInt(i - 1), step))]

RECURSIVE FloatPow(_, _)
FloatPow(a, k) == IF k = 0 THEN RatInt(1) ELSE RatMul(a, FloatPow(a, k - 1))

\* the compiled numpy expression at one float: a division by zero gives an
\* infinity of the sign of the numerator, log(0) is -inf and the log of a
\* negative number is nan, none of them raising
ExprAt(f, x) ==
    IF IsPower(f)
    THEN IF x[1] = 0 THEN (IF f.rc[1] > 0 THEN PosInf ELSE NegInf)
         ELSE LET d == FloatPow(x, f.m)
              IN  RatMul(f.rc, Rat(d[2], d[1]))
    ELSE IF IsLog(f)
    THEN IF x[1] < 0 THEN NaN
         ELSE IF x[1] = 0 THEN NegInf
         ELSE <<x[1], x[2], 1>>
    ELSE IF IsOpaque(f)
    THEN \* x**x is nan at a negative non-integer and 1 at 0; its derivative
         \* x**x*(log(x) + 1) is nan below 0 and -inf at 0; elsewhere the value
         \* is a finite float, written <<n, d, 2 + f.d>>
         IF f.d = 0 /\ x[1] = 0 THEN RatInt(1)
         ELSE IF f.d = 0 /\ x[1] < 0 /\ x[2] # 1 THEN NaN
         ELSE IF f.d > 0 /\ x[1] < 0 THEN NaN
         ELSE IF f.d > 0 /\ x[1] = 0 THEN NegInf
         ELSE <<x[1], x[2], 2 + f.d>>
    ELSE PolyEval(f.p, x)

\* an expression in which x does not occur
IsConstantExpr(f) == IsClosedForm(f) /\ Len(f.p) <= 1

ConstantOf(f) == IF f.p = <<>> THEN RatZero ELSE f.p[1]

\* sp.lambdify(x, expr, 'numpy') (line 52 of function_utils.py), tabulated
\* over x_vals: the callable compiled from a constant expression returns that
\* number whatever it is given, an array included
function_to_callable(f, x_vals, strict) ==
    IF IsUnevaluated(f)
    THEN \* the numpy printer has no code for an Integral: a strict printer
         \* raises while compiling, a lenient one writes the name `Integral`
         \* into the body, which then raises NameError on every call
         IF strict THEN [raised |-> TRUE, error |-> "PrintMethodNotImplementedError"]
         ELSE [ vec |-> Raised, pt |-> [i \in 1..Len(x_vals) |-> Raised] ]
    ELSE IF IsConstantExpr(f)
    THEN [ vec |-> [scalar |-> ConstantOf(f)],
           pt  |-> [i \in 1..Len(x_vals) |-> [scalar |-> ConstantOf(f)]] ]
    ELSE [ vec |-> [array |-> [i \in 1..Len(x_vals) |-> ExprAt(f, x_vals[i])]],
           pt  |-> [i \in 1..Len(x_vals) |-> [scalar |-> ExprAt(f, x_vals[i])]] ]

\* a - b on floats; two logarithms differ by the logarithm of the quotient
FloatSub(a, b) ==
    IF a = NaN \/ b = NaN THEN NaN
    ELSE IF ~IsFinite(a) THEN (IF a = b THEN NaN ELSE a)
    ELSE IF ~IsFinite(b) THEN <<-b[1], 0>>
    ELSE IF Len(a) = 3
    THEN LET q == Rat(a[1] * b[2], a[2] * b[1])
         IN  IF q = RatInt(1) THEN RatZero ELSE <<q[1], q[2], 1>>
    ELSE RatAdd(a, RatNeg(b))

Absent == [absent |-> TRUE]

IsPresent(vals) == "absent" \notin DOMAIN vals

\* line 55: np.all(np.isnan(integ_vals))
AllNaN(vals) ==
    IF IsArray(vals) THEN \A i \in 1..Len(vals.array) : vals.array[i] = NaN
    ELSE vals.scalar = NaN

\* lines 31-58.  The subtraction of line 56 indexes integ_vals, which raises
\* a TypeError when the compiled integral returned a bare number.
generate_plot_data(f, x_min, x_max, num_points, compute_deriv, compute_integ, deriv_order, strict) ==
    LET x_vals == Linspace(x_min, x_max, num_points)
        x_range == [array |-> x_vals]
        y_vals == evaluate_function(function_to_callable(f, x_vals, strict), x_range).returned
        deriv_expr == compute_derivative(f, deriv_order)
        deriv_vals ==
            IF compute_deriv
            THEN evaluate_function(function_to_callable(deriv_expr, x_vals, strict), x_range).returned
            ELSE Absent
        integ_expr == compute_integral(f, NoBound, NoBound)
        integ_func == function_to_callable(integ_expr, x_vals, strict)
        integ_raw == evaluate_function(integ_func, x_range).returned
        shifts == compute_integ /\ ~AllNaN(integ_raw)
        integ_vals ==
            IF ~compute_integ THEN Absent
            ELSE IF ~shifts THEN integ_raw
            ELSE [array |-> [i \in 1..Len(integ_raw.array) |->
                                FloatSub(integ_raw.array[i], integ_raw.array[1])]]
    IN  IF compute_integ /\ DidRaise(integ_func)
        THEN integ_func
        ELSE IF shifts /\ ~IsArray(integ_raw)
        THEN [raised |-> TRUE, error |-> "TypeError"]
        ELSE [ x_vals |-> x_range, y_vals |-> y_vals,
               deriv_vals |-> deriv_vals, integ_vals |-> integ_vals ]

(***************************************************************************)
(* Plot-data requests.                                                     *)
(***************************************************************************)

MaxGridPoints == 3

DefaultNumPoints == 1000

\* 0, 4, x, x**2 - 4*x + 4 and 1/x; x**x is requested with order 1 only.
\* `strict` is the sympy build the request runs on: whether its code printer
\* raises on an expression it has no code for.
PlotExprs ==
    { [p |-> q, s |-> 0, c |-> 0, e |-> 0] :
          q \in { <<>>, <<RatInt(4)>>, <<RatZero, RatInt(1)>>,
                  <<RatInt(4), RatInt(-4), RatInt(1)>> } }
        \cup { Reciprocal }

RangeEnds == { RatInt(-1), RatZero, RatInt(2) }

DerivOrders == 1..(MaxOrder + 1)

PlotRequests ==
    [ expr : PlotExprs, x_min : RangeEnds, x_max : RangeEnds,
      num_points : 1..MaxGridPoints,
      compute_deriv : BOOLEAN, compute_integ : BOOLEAN, deriv_order : DerivOrders,
      strict : BOOLEAN ]
        \cup [ expr : {XToTheX}, x_min : RangeEnds, x_max : RangeEnds,
               num_points : 1..MaxGridPoints,
               compute_deriv : BOOLEAN, compute_integ : BOOLEAN, deriv_order : {1},
               strict : BOOLEAN ]
        \cup [ expr : {Reciprocal}, x_min : {RatInt(-10)}, x_max : {RatInt(10)},
               num_points : {DefaultNumPoints},
               compute_deriv : BOOLEAN, compute_integ : BOOLEAN, deriv_order : {1},
               strict : BOOLEAN ]

InitAssemble ==
    /\ pc = "plot_ready"
    /\ request \in PlotRequests
    /\ bundle = None
    /\ ui = None
    /\ history = <<>>
    /\ calls = <<>>
    /\ registries = None
    /\ text = <<>>
    /\ cls = None
    /\ parsed = None
    /\ expr = None
    /\ mid = None
    /\ result = None
    /\ orders = <<>>

\* x_vals, y_vals, deriv_vals, integ_vals = generate_plot_data(expr, x_min, x_max, ...)
Assemble ==
    /\ pc = "plot_ready"
    /\ bundle' = generate_plot_data(request.expr, request.x_min, request.x_max,
                                    request.num_points, request.compute_deriv,
                                    request.compute_integ, request.deriv_order,
                                    request.strict)
    /\ pc' = "assembled"
    /\ UNCHANGED <<text, cls, parsed, expr, mid, result, orders, request, ui, history, calls, registries>>

NextAssemble == Assemble

SpecAssemble == InitAssemble /\ [][NextAssemble]_vars

(***************************************************************************)
(* C13, C16 - C20: the grid and the sample sets of a plot-data call        *)
(***************************************************************************)

Returned == pc = "assembled" /\ ~DidRaise(bundle)

RatLess(a, b) == a[1] * b[2] < b[1] * a[2]

\* x_min + i * (x_max - x_min) / (n - 1), as the weighted mean of the two ends
GridPoint(i) ==
    LET n == request.num_points
    IN  RatAdd(RatMul(request.x_min, Rat(n - 1 - i, n - 1)),
               RatMul(request.x_max, Rat(i, n - 1)))

EvenlySpaced ==
    \A i \in 0..(request.num_points - 1) : bundle.x_vals.array[i + 1] = GridPoint(i)

StrictlyIncreasing ==
    \A i \in 1..(request.num_points - 1) :
        RatLess(bundle.x_vals.array[i], bundle.x_vals.array[i + 1])

\* C13 as stated: the grid has exactly n points, the first exactly x_min and
\* the last exactly x_max, for every positive n.
C13_Original ==
    Returned =>
        /\ Len(bundle.x_vals.array) = request.num_points
        /\ bundle.x_vals.array[1] = request.x_min
        /\ bundle.x_vals.array[request.num_points] = request.x_max
        /\ request.num_points >= 2 => EvenlySpaced
        /\ RatLess(request.x_min, request.x_max) => StrictlyIncreasing

\* C13: the grid has exactly n points and starts exactly at x_min; for n >= 2
\* it ends exactly at x_max with x_i = x_min + i*(x_max - x_min)/(n-1),
\* strictly increasing when x_min < x_max; for n = 1 it is the single point
\* x_min.
C13_Grid ==
    Returned =>
        /\ Len(bundle.x_vals.array) = request.num_points
        /\ bundle.x_vals.array[1] = request.x_min
        /\ request.num_points >= 2 =>
              /\ bundle.x_vals.array[request.num_points] = request.x_max
              /\ EvenlySpaced
              /\ RatLess(request.x_min, request.x_max) => StrictlyIncreasing

\* three points over [-1, 2]
C13_Witness ==
    /\ Returned
    /\ request.num_points = MaxGridPoints
    /\ request.x_min = RatInt(-1)
    /\ request.x_max = RatInt(2)
    /\ bundle.x_vals.array[2] = Rat(1, 2)
    /\ bundle.x_vals.array[MaxGridPoints] = RatInt(2)

ReciprocalOverTen ==
    /\ pc = "assembled"
    /\ request.expr = Reciprocal
    /\ request.x_min = RatInt(-10)
    /\ request.x_max = RatInt(10)
    /\ request.num_points = DefaultNumPoints

NaNIndices(vals) == { i \in 1..Len(vals.array) : vals.array[i] = NaN }

\* the indices whose grid point is nearest to 0
NearestZero(x_vals) ==
    { i \in 1..Len(x_vals) :
         \A j \in 1..Len(x_vals) :
             ~RatLess(<<Abs(x_vals[j][1]), x_vals[j][2]>>, <<Abs(x_vals[i][1]), x_vals[i][2]>>) }

\* C16 as stated: 1/x over [-10, 10] with 1000 points has exactly one
\* not-a-number sample, at the index nearest x = 0, every other sample finite.
C16_Original ==
    ReciprocalOverTen =>
        /\ Cardinality(NaNIndices(bundle.y_vals)) = 1
        /\ NaNIndices(bundle.y_vals) \subseteq NearestZero(bundle.x_vals.array)
        /\ \A i \in 1..DefaultNumPoints :
              i \notin NaNIndices(bundle.y_vals) => IsFinite(bundle.y_vals.array[i])

\* C16: 1/x over [-10, 10] with 1000 points has no not-a-number sample: the
\* grid does not contain 0 and every one of the 1000 samples is finite.
C16_AllFinite ==
    ReciprocalOverTen =>
        /\ Len(bundle.y_vals.array) = DefaultNumPoints
        /\ \A i \in 1..DefaultNumPoints :
              /\ bundle.x_vals.array[i] # RatZero
              /\ IsFinite(bundle.y_vals.array[i])

\* the two samples on either side of 0 are -99.9 and 99.9
C16_Witness ==
    /\ ReciprocalOverTen
    /\ NearestZero(bundle.x_vals.array) = {500, 501}
    /\ bundle.y_vals.array[500] = Rat(-999, 10)
    /\ bundle.y_vals.array[501] = Rat(999, 10)

\* C17 as stated: with x_min = x_max, and with x_min > x_max, the call fails
\* with a RangeError and produces no bundle.
C17_Original ==
    (pc = "assembled" /\ ~RatLess(request.x_min, request.x_max)) =>
        /\ DidRaise(bundle)
        /\ bundle.error = "RangeError"

\* the samples of the integral before line 56 shifts them
RawIntegral ==
    evaluate_function(
        function_to_callable(compute_integral(request.expr, NoBound, NoBound), bundle.x_vals.array,
                             request.strict),
        bundle.x_vals).returned

FiniteIndices(vals) ==
    IF IsArray(vals) THEN { i \in 1..Len(vals.array) : IsFinite(vals.array[i]) } ELSE {}

\* C18 as stated: when the integral samples contain a finite value, the first
\* finite sample after normalization is exactly 0, also when the sample at
\* index 0 is not-a-number or infinite.
C18_Original ==
    (Returned /\ request.compute_integ /\ FiniteIndices(RawIntegral) # {}) =>
        \E i \in FiniteIndices(bundle.integ_vals) :
            /\ \A j \in FiniteIndices(bundle.integ_vals) : i <= j
            /\ bundle.integ_vals.array[i] = RatZero

HasOnePerPoint(vals) ==
    IsPresent(vals) => IsArray(vals) /\ Len(vals.array) = request.num_points

\* C19 as stated: every sample set returned has exactly n y-values, also when
\* the expression, its derivative or its integral is a constant.
C19_Original ==
    Returned =>
        /\ HasOnePerPoint(bundle.y_vals)
        /\ HasOnePerPoint(bundle.deriv_vals)
        /\ HasOnePerPoint(bundle.integ_vals)

\* vals are the values of f over the grid, as an array or as one number
SamplesOf(vals, f) ==
    IF IsArray(vals)
    THEN \A i \in 1..Len(vals.array) : vals.array[i] = ExprAt(f, bundle.x_vals.array[i])
    ELSE IsConstantExpr(f) /\ vals.scalar = ConstantOf(f)

\* C20 as stated: the function samples are always produced; the derivative
\* samples exactly when asked for, the integral samples exactly when asked
\* for, and the derivative samples are those of the derivative of the
\* requested order.
C20_Original ==
    pc = "assembled" =>
        /\ ~DidRaise(bundle)
        /\ IsPresent(bundle.y_vals)
        /\ IsPresent(bundle.deriv_vals) <=> request.compute_deriv
        /\ IsPresent(bundle.integ_vals) <=> request.compute_integ
        /\ request.compute_deriv =>
              SamplesOf(bundle.deriv_vals, NthDerivative(request.expr, request.deriv_order))

\* the integral of the request has no closed form: what the engine hands back
\* cannot be compiled into a working callable
IntegralFails ==
    request.compute_integ /\ IsUnevaluated(compute_integral(request.expr, NoBound, NoBound))

\* C21 as stated: when the derivative or the integral expression cannot be
\* produced or compiled, the call still returns a bundle with the function
\* samples, the failed sample set is omitted and the failure is reported as
\* a partial result; the call as a whole never fails for that reason.
C21_Original ==
    (pc = "assembled" /\ IntegralFails) =>
        /\ ~DidRaise(bundle)
        /\ IsPresent(bundle.y_vals)
        /\ ~IsPresent(bundle.integ_vals)
        /\ "partial_failure" \in DOMAIN bundle

(***************************************************************************)
(* Concept lookup: src/ai_helper.py, get_calculus_concept and              *)
(* answer_calculus_question                                                *)
(***************************************************************************)

\* CALCULUS_CONCEPTS (lines 43-51), in insertion order; `text` is the entry's
\* value, named by its opening words
CALCULUS_CONCEPTS ==
    << [key |-> <<"d","e","r","i","v","a","t","i","v","e">>,
        text |-> "The derivative measures the rate of change ..."],
       [key |-> <<"i","n","t","e","g","r","a","l">>,
        text |-> "The integral represents the accumulation of quantities ..."],
       [key |-> <<"l","i","m","i","t">>,
        text |-> "A limit describes the value a function approaches ..."],
       [key |-> <<"c","o","n","t","i","n","u","i","t","y">>,
        text |-> "A function is continuous at a point if ..."],
       [key |-> <<"e","x","t","r","e","m","a">>,
        text |-> "Extrema are the maximum and minimum values ..."],
       [key |-> <<"i","n","f","l","e","c","t","i","o","n">>,
        text |-> "An inflection point is where the curvature changes sign ..."],
       [key |-> <<"s","e","r","i","e","s">>,
        text |-> "A series is the sum of the terms of a sequence ..."] >>

\* line 94
GeneralConceptMessage == "This is a concept in calculus. For more specific information, ..."

\* TfidfVectorizer's default token_pattern (?u)\b\w\w+\b: the maximal runs of
\* word characters that are at least two characters long
RECURSIVE TokensFrom(_, _)
TokensFrom(s, i) ==
    IF i > Len(s) THEN <<>>
    ELSE IF s[i] \notin WordChars THEN TokensFrom(s, i + 1)
    ELSE LET e == WordRunEnd(s, i)
         IN  (IF e > i THEN <<SubSeq(s, i, e)>> ELSE <<>>) \o TokensFrom(s, e + 1)

\* term frequency of the token t in the document
TermCount(toks, t) == Cardinality({ i \in 1..Len(toks) : toks[i] = t })

KeysOf(table) == { table[k].key : k \in 1..Len(table) }

ConceptKeys == KeysOf(CALCULUS_CONCEPTS)

RECURSIVE SumOfSquares(_, _)
SumOfSquares(toks, terms) ==
    IF terms = {} THEN 0
    ELSE LET t == CHOOSE u \in terms : TRUE
         IN  TermCount(toks, t) * TermCount(toks, t) + SumOfSquares(toks, terms \ {t})

\* Squares of the smoothed idf weights ln((1 + n)/(1 + df)) + 1 over the n = 8
\* fitted documents (the query and the seven keys), times 10000: a key that
\* occurs in the query has df = 2, every other term of the query df = 1.
IdfSquaredKey == 44042

IdfSquaredOther == 62704

\* the threshold of line 93, 0.3, squared and times 100
ThresholdSquared == 9

\* Each key document is the unit vector of its own term, so the cosine
\* similarity of the query with key k is the query's normalised weight of
\* that term: tf*idf over the l2 norm of the query's tf-idf vector.  A query
\* with no token has the zero vector and similarity 0 with every key.
\* `weight` is the numerator squared, `norm` the denominator squared.
SimilarityIn(keys, toks, key) ==
    LET terms == { toks[i] : i \in 1..Len(toks) }
        tf == TermCount(toks, key)
    IN  [ weight |-> tf * tf * IdfSquaredKey,
          norm   |-> IdfSquaredKey * SumOfSquares(toks, terms \cap keys)
                       + IdfSquaredOther * SumOfSquares(toks, terms \ keys) ]

Similarity(toks, key) == SimilarityIn(ConceptKeys, toks, key)

\* a < b for two similarities of the same query (they share the norm)
LessSimilar(a, b) == a.weight < b.weight

\* similarity < 0.3; the zero vector (norm 0) has similarity 0
BelowThreshold(sim) == sim.norm = 0 \/ 100 * sim.weight < ThresholdSquared * sim.norm

\* np.argmax (line 90): the first index holding the maximum
ArgMax(sims) ==
    CHOOSE k \in 1..Len(sims) :
        /\ \A j \in 1..Len(sims) : ~LessSimilar(sims[k], sims[j])
        /\ \A j \in 1..(k - 1) : LessSimilar(sims[j], sims[k])

\* the threshold test left out
get_calculus_concept_NoThreshold(concept) ==
    LET toks == TokensFrom(Lower(concept), 1)
        similarities == [k \in 1..Len(CALCULUS_CONCEPTS) |->
                            Similarity(toks, CALCULUS_CONCEPTS[k].key)]
    IN  CALCULUS_CONCEPTS[ArgMax(similarities)].text

\* lines 81-97
\* `table` is the dictionary CALCULUS_CONCEPTS as the call finds it
closest_concept(table, concept) ==
    LET toks == TokensFrom(Lower(concept), 1)
        similarities == [k \in 1..Len(table) |->
                            SimilarityIn(KeysOf(table), toks, table[k].key)]
        closest_index == ArgMax(similarities)
    IN  IF BelowThreshold(similarities[closest_index])
        THEN GeneralConceptMessage
        ELSE table[closest_index].text

get_calculus_concept(concept) == closest_concept(CALCULUS_CONCEPTS, concept)

\* concept_keywords (lines 168-176), in insertion order
concept_keywords ==
    << [ concept |-> <<"d","e","r","i","v","a","t","i","v","e">>,
         keywords |-> { <<"d","e","r","i","v","a","t","i","v","e">>,
                        <<"d","i","f","f","e","r","e","n","t","i","a","t","i","o","n">>,
                        <<"r","a","t","e"," ","o","f"," ","c","h","a","n","g","e">>,
                        <<"s","l","o","p","e">> } ],
       [ concept |-> <<"i","n","t","e","g","r","a","l">>,
         keywords |-> { <<"i","n","t","e","g","r","a","l">>,
                        <<"i","n","t","e","g","r","a","t","i","o","n">>,
                        <<"a","r","e","a">>,
                        <<"a","n","t","i","d","e","r","i","v","a","t","i","v","e">> } ],
       [ concept |-> <<"l","i","m","i","t">>,
         keywords |-> { <<"l","i","m","i","t">>,
                        <<"a","p","p","r","o","a","c","h","i","n","g">>,
                        <<"t","e","n","d","s"," ","t","o">> } ],
       [ concept |-> <<"c","o","n","t","i","n","u","i","t","y">>,
         keywords |-> { <<"c","o","n","t","i","n","u","o","u","s">>,
                        <<"c","o","n","t","i","n","u","i","t","y">>,
                        <<"d","i","s","c","o","n","t","i","n","u","i","t","y">> } ],
       [ concept |-> <<"e","x","t","r","e","m","a">>,
         keywords |-> { <<"m","a","x","i","m","u","m">>,
                        <<"m","i","n","i","m","u","m">>,
                        <<"e","x","t","r","e","m","a">>,
                        <<"e","x","t","r","e","m","e">>,
                        <<"p","e","a","k">>,
                        <<"v","a","l","l","e","y">> } ],
       [ concept |-> <<"i","n","f","l","e","c","t","i","o","n">>,
         keywords |-> { <<"i","n","f","l","e","c","t","i","o","n">>,
                        <<"c","o","n","c","a","v","i","t","y">>,
                        <<"c","u","r","v","a","t","u","r","e">> } ],
       [ concept |-> <<"s","e","r","i","e","s">>,
         keywords |-> { <<"s","e","r","i","e","s">>,
                        <<"t","a","y","l","o","r">>,
                        <<"m","a","c","l","a","u","r","i","n">>,
                        <<"p","o","w","e","r"," ","s","e","r","i","e","s">> } ] >>

\* lines 186-189
GeneralCalculusMessage == "Calculus is the mathematical study of continuous change ..."

\* the concepts one of whose keywords occurs in the lower-cased question
MatchingConcepts(question) ==
    { k \in 1..Len(concept_keywords) :
         \E keyword \in concept_keywords[k].keywords : Contains(question, keyword) }

\* the loop of line 181 answering with the last matching concept
answer_calculus_question_LastMatch(question) ==
    LET hits == MatchingConcepts(Lower(question))
    IN  IF hits = {} THEN GeneralCalculusMessage
        ELSE get_calculus_concept(
                 concept_keywords[CHOOSE k \in hits : \A j \in hits : j <= k].concept)

\* lines 166-189: the first concept, in dictionary order, with a keyword in
\* the question is looked up by its own name
answer_calculus_question(question) ==
    LET hits == MatchingConcepts(Lower(question))
    IN  IF hits = {} THEN GeneralCalculusMessage
        ELSE get_calculus_concept(
                 concept_keywords[CHOOSE k \in hits : \A j \in hits : k <= j].concept)

(***************************************************************************)
(* Concept requests: a query or a question is entered, then answered.       *)
(***************************************************************************)

MaxQueryToks == 4

QueryVocab ==
    { <<"d","e","r","i","v","a","t","i","v","e"," ">>,
      <<"l","i","m","i","t"," ">>,
      <<"f","o","o"," ">>,
      <<"x"," ">>,
      <<"I","n","t","e","g","r","a","l">>,
      <<"s","l","o","p","e"," ">>,
      <<"a","r","e","a">> }

InitAdvisor ==
    /\ pc = "asked"
    /\ \E toks \in TokSeqs(QueryVocab, MaxQueryToks) : text = Flatten(toks)
    /\ cls = None
    /\ parsed = None
    /\ expr = None
    /\ mid = None
    /\ result = None
    /\ orders = <<>>
    /\ request = None
    /\ bundle = None
    /\ ui = None
    /\ history = <<>>
    /\ calls = <<>>
    /\ registries = None

\* get_calculus_concept(text)
DescribeConcept ==
    /\ pc = "asked"
    /\ result' = get_calculus_concept(text)
    /\ pc' = "described"
    /\ UNCHANGED <<text, cls, parsed, expr, mid, orders, request, bundle, ui, history, calls, registries>>

\* answer_calculus_question(text)
AnswerQuestion ==
    /\ pc = "asked"
    /\ result' = answer_calculus_question(text)
    /\ pc' = "answered"
    /\ UNCHANGED <<text, cls, parsed, expr, mid, orders, request, bundle, ui, history, calls, registries>>

NextAdvisor == DescribeConcept \/ AnswerQuestion

SpecAdvisor == InitAdvisor /\ [][NextAdvisor]_vars

(***************************************************************************)
(* C22, C29: concept lookup                                                *)
(***************************************************************************)

QueryTokens == TokensFrom(Lower(text), 1)

Scores == [k \in 1..Len(CALCULUS_CONCEPTS) |-> Similarity(QueryTokens, CALCULUS_CONCEPTS[k].key)]

IsBest(k) == \A j \in 1..Len(CALCULUS_CONCEPTS) : ~LessSimilar(Scores[k], Scores[j])

\* C22: describe_concept returns the text of the concept with the highest
\* similarity when that score is at least 0.3, and the generic message
\* whenever the best score is below 0.3, in particular when the query shares
\* no term with any concept.
C22_Threshold ==
    pc = "described" =>
        /\ IF \A k \in 1..Len(CALCULUS_CONCEPTS) : BelowThreshold(Scores[k])
           THEN result = GeneralConceptMessage
           ELSE \E k \in 1..Len(CALCULUS_CONCEPTS) :
                    /\ IsBest(k)
                    /\ ~BelowThreshold(Scores[k])
                    /\ result = CALCULUS_CONCEPTS[k].text
        /\ (\A k \in 1..Len(CALCULUS_CONCEPTS) : TermCount(QueryTokens, CALCULUS_CONCEPTS[k].key) = 0)
              => result = GeneralConceptMessage
        /\ text = <<"f","o","o"," ","f","o","o"," ","d","e","r","i","v","a","t","i","v","e"," ">> => result = CALCULUS_CONCEPTS[1].text
        /\ text = <<"l","i","m","i","t"," ","l","i","m","i","t"," ","d","e","r","i","v","a","t","i","v","e"," ">> => result = CALCULUS_CONCEPTS[3].text

\* "foo foo foo derivative ": the key is there, but its weight is
\* 1/sqrt(1 + 9 * 1.4237) = 0.27, and the generic message is returned
C22_Witness ==
    /\ pc = "described"
    /\ text = <<"f","o","o"," ","f","o","o"," ","f","o","o"," ","d","e","r","i","v","a","t","i","v","e"," ">>
    /\ ~BelowThreshold([weight |-> 1, norm |-> 11])
    /\ BelowThreshold(Scores[1])
    /\ result = GeneralConceptMessage

\* the entry of CALCULUS_CONCEPTS under the given name
RegistryText(name) ==
    CALCULUS_CONCEPTS[CHOOSE k \in 1..Len(CALCULUS_CONCEPTS) : CALCULUS_CONCEPTS[k].key = name].text

\* C29: answer_calculus_question scans the concepts in the order derivative,
\* integral, limit, continuity, extrema, inflection, series and returns the
\* registry text of the first one with a keyword occurring in the lower-cased
\* question; with no keyword at all it returns the general calculus message.
C29_FirstKeyword ==
    pc = "answered" =>
        LET question == Lower(text)
            hit(k) == \E keyword \in concept_keywords[k].keywords : Contains(question, keyword)
        IN  /\ [k \in 1..Len(concept_keywords) |-> concept_keywords[k].concept]
                  = << <<"d","e","r","i","v","a","t","i","v","e">>, <<"i","n","t","e","g","r","a","l">>, <<"l","i","m","i","t">>, <<"c","o","n","t","i","n","u","i","t","y">>, <<"e","x","t","r","e","m","a">>, <<"i","n","f","l","e","c","t","i","o","n">>, <<"s","e","r","i","e","s">> >>
            /\ (\A k \in 1..Len(concept_keywords) : ~hit(k)) => result = GeneralCalculusMessage
            /\ \A k \in 1..Len(concept_keywords) :
                  (hit(k) /\ \A j \in 1..(k - 1) : ~hit(j))
                      => result = RegistryText(concept_keywords[k].concept)

\* "areaslope ": area is a keyword of integral and comes first in the text,
\* slope is a keyword of derivative, which comes first in the scan
C29_Witness ==
    /\ pc = "answered"
    /\ text = <<"a","r","e","a","s","l","o","p","e"," ">>
    /\ result = CALCULUS_CONCEPTS[1].text

(***************************************************************************)
(* The two front ends: src/app.py (the web page, a script run again on     *)
(* every interaction) and src/desktop_app.py (the desktop window).  `ui`   *)
(* holds a front end's widgets and, for the web page, its session state;   *)
(* `history` is the function_entries table; `calls` lists the core calls   *)
(* of the last request in the order they were made.                        *)
(***************************************************************************)

\* the default text of both front ends (app.py line 24, desktop_app.py line 530)
DefaultFunction == <<"x","*","*","2"," ","-"," ","4","*","x"," ","+"," ","4">>

\* the slider of both front ends (app.py lines 88-89, desktop_app.py lines 572-573)
SliderMin == 1

SliderMax == 5

\* the texts entered in the front ends: the default text, a text the parser
\* rejects and a constant
FunctionTexts == { DefaultFunction, <<"s","i","n","(","x",")">>, <<"2">> }

\* parse_function on each of them
Parses == [t \in FunctionTexts |-> parse_function(t)]

\* the expression sympify builds from each of them that parses
Expressions ==
    [ t \in { u \in FunctionTexts : Parses[u].ok } |->
        [ p |-> IF t = DefaultFunction THEN <<RatInt(4), RatInt(-4), RatInt(1)>>
                ELSE <<RatInt(2)>>,
          s |-> 0, c |-> 0, e |-> 0 ] ]

\* a >= b on Python floats: every comparison with nan is False
FloatGE(a, b) ==
    IF a = NaN \/ b = NaN THEN FALSE
    ELSE IF a = PosInf \/ b = NegInf THEN TRUE
    ELSE IF a = NegInf \/ b = PosInf THEN FALSE
    ELSE ~RatLess(a, b)

\* x + 1.0 on Python floats: inf + 1.0 is inf, nan + 1.0 is nan
FloatPlusOne(a) == IF IsFinite(a) THEN RatAdd(a, RatInt(1)) ELSE a

\* the range check of both front ends (app.py lines 76-79, desktop_app.py
\* lines 707-709): the x_max the request goes on with
repaired_x_max(x_min, x_max) == IF FloatGE(x_min, x_max) THEN FloatPlusOne(x_min) ELSE x_max

\* the order taken to be 0 when the derivative is switched off
web_derivative_order_ZeroWhenOff(show_derivative, slider) ==
    IF show_derivative THEN slider ELSE 0

\* app.py lines 85-94
web_derivative_order(show_derivative, slider) ==
    IF show_derivative THEN slider ELSE 1

\* QSlider.setValue (desktop_app.py line 816): the value is brought into the
\* slider's range
setValue(v) == IF v < SliderMin THEN SliderMin ELSE IF v > SliderMax THEN SliderMax ELSE v

Call(op, args, ok) == [op |-> op, args |-> args, ok |-> ok]

\* the entry saved right after parsing, whatever comes after
try_completed_AfterParse(steps) == steps[1].ok

\* the body of the try block ran to the statement that saves: no call before
\* it raised (app.py lines 106-211, desktop_app.py lines 696-801)
try_completed(steps) == \A i \in 1..Len(steps) : steps[i].ok

\* the calls of a request up to and including the first one that raises
RECURSIVE UpToFailure(_)
UpToFailure(steps) ==
    IF steps = <<>> THEN <<>>
    ELSE IF ~Head(steps).ok THEN <<Head(steps)>>
    ELSE <<Head(steps)>> \o UpToFailure(Tail(steps))

\* lines 85-98 of visualization.py: matplotlib's plot raises ValueError when
\* the values are not an array as long as x_vals
draw(data, show_deriv, show_integ) ==
    IF ~IsArray(data.y_vals) THEN [raised |-> TRUE, error |-> "ValueError"]
    ELSE IF show_deriv /\ ~IsArray(data.deriv_vals) THEN [raised |-> TRUE, error |-> "ValueError"]
    ELSE IF show_integ /\ ~IsArray(data.integ_vals) THEN [raised |-> TRUE, error |-> "ValueError"]
    ELSE [figure |-> data]

\* an exception of generate_plot_data passes through
drawn(data, show_deriv, show_integ) ==
    IF DidRaise(data) THEN data ELSE draw(data, show_deriv, show_integ)

\* create_combined_plot (visualization.py lines 60-111)
create_combined_plot(f, x_min, x_max, num_points, show_deriv, show_integ, deriv_order) ==
    drawn(generate_plot_data(f, x_min, x_max, num_points, show_deriv, show_integ,
                             deriv_order, TRUE),
          show_deriv, show_integ)

\* the sampling and drawing of desktop_app.py lines 738-776: a constant
\* expression compiles to a callable returning a bare number, which plot
\* rejects and inty[0] cannot index
desktop_plot_ok(f, show_derivative, derivative_order, show_integral) ==
    /\ ~IsConstantExpr(f)
    /\ show_derivative => ~IsConstantExpr(compute_derivative(f, derivative_order))
    /\ show_integral => ~IsConstantExpr(compute_integral(f, NoBound, NoBound))

Entry(function_text, x_min, x_max, show_derivative, derivative_order, show_integral) ==
    [ function_text |-> function_text, x_min |-> x_min, x_max |-> x_max,
      show_derivative |-> show_derivative, derivative_order |-> derivative_order,
      show_integral |-> show_integral ]

\* the calls in the try block of a web run (app.py lines 106-147), each with
\* whether it returned.  The plot is sampled at MaxGridPoints points of
\* [x_min, x_max] in place of the 1000 of the source.
WebSteps(w, x_max, derivative_order) ==
    IF ~Parses[w.function_input].ok
    THEN << Call("parse_function", w.function_input, FALSE) >>
    ELSE << Call("parse_function", w.function_input, TRUE) >>
         \o (IF w.show_derivative
             THEN << Call("compute_derivative", [order |-> derivative_order], TRUE) >>
             ELSE <<>>)
         \o (IF w.show_integral THEN << Call("compute_integral", <<>>, TRUE) >> ELSE <<>>)
         \o << Call("plot", [x_min |-> w.x_min, x_max |-> x_max, order |-> derivative_order],
                    ~DidRaise(create_combined_plot(Expressions[w.function_input], w.x_min, x_max,
                                                   MaxGridPoints, w.show_derivative,
                                                   w.show_integral, derivative_order))) >>

\* the calls in the try block of visualize_function (desktop_app.py lines
\* 712-776)
DesktopSteps(w, x_max) ==
    IF ~Parses[w.function_input].ok
    THEN << Call("parse_function", w.function_input, FALSE) >>
    ELSE << Call("parse_function", w.function_input, TRUE) >>
         \o (IF w.show_derivative
             THEN << Call("compute_derivative", [order |-> w.slider], TRUE) >>
             ELSE <<>>)
         \o (IF w.show_integral THEN << Call("compute_integral", <<>>, TRUE) >> ELSE <<>>)
         \o << Call("plot", [x_min |-> w.x_min, x_max |-> x_max, order |-> w.slider],
                    desktop_plot_ok(Expressions[w.function_input], w.show_derivative,
                                    w.slider, w.show_integral)) >>

\* app.py lines 152-156: the inputs differ from the session state, or nothing
\* was saved yet
changed(session, w, x_max, derivative_order) ==
    \/ session.function_input # w.function_input
    \/ session.x_min # w.x_min
    \/ session.x_max # x_max
    \/ session.derivative_order # derivative_order
    \/ ~session.history_updated

\* what a request leaves: the front end's state, the calls it made up to the
\* first that raised, and the entry it saved, if any
Outcome(state, steps, saves, entry) ==
    [ ui |-> state,
      calls |-> UpToFailure(steps)
                  \o (IF saves THEN << Call("save_function_entry", <<>>, TRUE) >> ELSE <<>>),
      saved |-> IF saves THEN <<entry>> ELSE <<>> ]

WebOutcome(session, w, x_max, derivative_order, steps, saves) ==
    Outcome([ app |-> "web",
              function_input |-> w.function_input,
              x_min |-> w.x_min,
              x_max |-> x_max,
              derivative_order |-> derivative_order,
              history_updated |-> session.history_updated \/ saves,
              show_derivative |-> w.show_derivative,
              show_integral |-> w.show_integral,
              entered |-> w ],
            steps, saves,
            Entry(w.function_input, w.x_min, x_max, w.show_derivative,
                  derivative_order, w.show_integral))

WebTry(session, w, x_max, derivative_order, steps) ==
    WebOutcome(session, w, x_max, derivative_order, steps,
               try_completed(steps) /\ changed(session, w, x_max, derivative_order))

WebRepaired(session, w, x_max, derivative_order) ==
    WebTry(session, w, x_max, derivative_order, WebSteps(w, x_max, derivative_order))

\* One run of the web script on the widget values w (app.py lines 44-211 and
\* 259-263); `session` is st.session_state as the run finds it.
WebRun(session, w) ==
    WebRepaired(session, w, repaired_x_max(w.x_min, w.x_max),
                web_derivative_order(w.show_derivative, w.slider))

DesktopOutcome(w, x_max, steps, saves) ==
    Outcome([ app |-> "desktop",
              function_input |-> w.function_input,
              x_min |-> w.x_min,
              x_max |-> x_max,
              derivative_order |-> w.slider,
              show_derivative |-> w.show_derivative,
              show_integral |-> w.show_integral,
              entered |-> w ],
            steps, saves,
            Entry(w.function_input, w.x_min, x_max, w.show_derivative,
                  w.slider, w.show_integral))

DesktopTry(w, x_max, steps) == DesktopOutcome(w, x_max, steps, try_completed(steps))

DesktopRepaired(w, x_max) == DesktopTry(w, x_max, DesktopSteps(w, x_max))

\* visualize_function on the widget contents w (desktop_app.py lines 694-801)
DesktopRun(w) == DesktopRepaired(w, repaired_x_max(w.x_min, w.x_max))

(***************************************************************************)
(* Front-end requests.                                                     *)
(***************************************************************************)

MaxHistory == 2

\* <<show_derivative, slider, show_integral>>
OptionChoices == { <<TRUE, 1, TRUE>>, <<TRUE, 5, TRUE>>, <<FALSE, 3, FALSE>> }

\* <<x_min, x_max>> as the number inputs of the web page give them
WebRanges == { <<RatZero, RatInt(10)>>, <<RatInt(10), RatZero>>, <<RatInt(10), RatInt(10)>> }

\* <<x_min, x_max>> as float() reads them from the desktop's text fields,
\* which accepts "inf" and "nan"
DesktopRanges ==
    { <<RatZero, RatInt(10)>>, <<RatInt(10), RatZero>>, <<PosInf, RatInt(10)>>, <<NaN, RatInt(10)>> }

Widgets(function_input, range, option) ==
    [ function_input |-> function_input, x_min |-> range[1], x_max |-> range[2],
      show_derivative |-> option[1], slider |-> option[2], show_integral |-> option[3] ]

\* app.py lines 23-34 and the widget defaults of lines 64-96
WebStart ==
    [ app |-> "web", function_input |-> DefaultFunction,
      x_min |-> RatInt(-10), x_max |-> RatInt(10), derivative_order |-> 1,
      history_updated |-> FALSE, show_derivative |-> TRUE, show_integral |-> TRUE,
      entered |-> None ]

\* desktop_app.py lines 530-591
DesktopStart ==
    [ app |-> "desktop", function_input |-> DefaultFunction,
      x_min |-> RatInt(-10), x_max |-> RatInt(10), derivative_order |-> 1,
      show_derivative |-> TRUE, show_integral |-> TRUE,
      entered |-> None ]

InitFrontEnd ==
    /\ ui \in { WebStart, DesktopStart }
    /\ pc = IF ui.app = "web" THEN "loading" ELSE "shown"
    /\ history = <<>>
    /\ calls = <<>>
    /\ registries = None
    /\ text = None
    /\ cls = None
    /\ parsed = None
    /\ expr = None
    /\ mid = None
    /\ result = None
    /\ orders = None
    /\ request = None
    /\ bundle = None

\* the request's outcome takes effect
Respond(r) ==
    /\ ui' = r.ui
    /\ calls' = r.calls
    /\ history' = history \o r.saved

\* the page is opened: the script runs on the defaults
WebFirstRun ==
    /\ pc = "loading"
    /\ LET r == WebRun(ui, Widgets(ui.function_input, <<ui.x_min, ui.x_max>>,
                                   <<ui.show_derivative, ui.derivative_order, ui.show_integral>>))
       IN  Respond(r)
    /\ pc' = "shown"
    /\ UNCHANGED <<text, cls, parsed, expr, mid, result, orders, request, bundle, registries>>

\* the user changes widgets of the web page: the script runs again
WebRequest ==
    /\ pc = "shown"
    /\ ui.app = "web"
    /\ Len(history) < MaxHistory
    /\ \E t \in FunctionTexts, range \in WebRanges, option \in OptionChoices :
         LET r == WebRun(ui, Widgets(t, range, option))
         IN  Respond(r)
    /\ UNCHANGED <<pc, text, cls, parsed, expr, mid, result, orders, request, bundle, registries>>

\* "Load" on a history entry of the web page (app.py lines 241-248): the
\* session state takes the entry's values and the script runs again, its
\* widgets showing them; the two checkboxes stay as they are
WebLoad ==
    /\ pc = "shown"
    /\ ui.app = "web"
    /\ Len(history) < MaxHistory
    /\ \E id \in 1..Len(history) :
         LET entry == history[id]
             session == [ui EXCEPT !.function_input = entry.function_text,
                                   !.x_min = entry.x_min,
                                   !.x_max = entry.x_max,
                                   !.derivative_order = entry.derivative_order]
             r == WebRun(session, Widgets(entry.function_text, <<entry.x_min, entry.x_max>>,
                                          <<ui.show_derivative, entry.derivative_order,
                                            ui.show_integral>>))
         IN  Respond(r)
    /\ UNCHANGED <<pc, text, cls, parsed, expr, mid, result, orders, request, bundle, registries>>

\* the user fills the desktop's fields and presses "Visualize"
DesktopVisualize ==
    /\ pc = "shown"
    /\ ui.app = "desktop"
    /\ Len(history) < MaxHistory
    /\ \E t \in FunctionTexts, range \in DesktopRanges, option \in OptionChoices :
         LET r == DesktopRun(Widgets(t, range, option))
         IN  Respond(r)
    /\ UNCHANGED <<pc, text, cls, parsed, expr, mid, result, orders, request, bundle, registries>>

\* load_history_entry (desktop_app.py lines 808-823): the widgets take the
\* entry's values and visualize_function runs
DesktopLoad ==
    /\ pc = "shown"
    /\ ui.app = "desktop"
    /\ Len(history) < MaxHistory
    /\ \E id \in 1..Len(history) :
         LET entry == history[id]
             r == DesktopRun(Widgets(entry.function_text, <<entry.x_min, entry.x_max>>,
                                     <<entry.show_derivative, setValue(entry.derivative_order),
                                       entry.show_integral>>))
         IN  Respond(r)
    /\ UNCHANGED <<pc, text, cls, parsed, expr, mid, result, orders, request, bundle, registries>>

NextFrontEnd == WebFirstRun \/ WebRequest \/ WebLoad \/ DesktopVisualize \/ DesktopLoad

SpecFrontEnd == InitFrontEnd /\ [][NextFrontEnd]_vars

\* a < b on floats, as the claims about the range read it
Below(a, b) ==
    /\ a # NaN
    /\ b # NaN
    /\ a # b
    /\ IF IsFinite(a) /\ IsFinite(b) THEN RatLess(a, b) ELSE a = NegInf \/ b = PosInf

PlotCalls == { i \in 1..Len(calls) : calls[i].op = "plot" }

\* C26: whenever a front end reaches its sampling and plotting code, the range
\* it passes has x_min < x_max, and x_min is the value that was entered.
C26_Original ==
    \A i \in PlotCalls :
        /\ Below(calls[i].args.x_min, calls[i].args.x_max)
        /\ calls[i].args.x_min = ui.entered.x_min

\* C26 with the range limited to finite numbers: the repair then does what the
\* claim says
C26_FiniteRange ==
    \A i \in PlotCalls :
        (IsFinite(ui.entered.x_min) /\ IsFinite(ui.entered.x_max)) =>
            /\ Below(calls[i].args.x_min, calls[i].args.x_max)
            /\ calls[i].args.x_min = ui.entered.x_min
            /\ calls[i].args.x_max =
                   IF Below(ui.entered.x_min, ui.entered.x_max) THEN ui.entered.x_max
                   ELSE RatAdd(ui.entered.x_min, RatInt(1))

OrderCalls == { i \in 1..Len(calls) : calls[i].op \in {"compute_derivative", "plot"} }

\* C27: the order a front end passes to compute_derivative and to the plotting
\* code is an integer from 1 to 5, also in a request made by loading a history
\* entry, and it is 1 whenever the web page's derivative checkbox is off.
C27_OrderInRange ==
    \A i \in OrderCalls :
        /\ calls[i].args.order \in 1..5
        /\ (ui.app = "web" /\ ~ui.show_derivative) => calls[i].args.order = 1

\* a web request with the derivative off got as far as the plotting code
C27_Witness ==
    /\ ui.app = "web"
    /\ ~ui.show_derivative
    /\ ui.entered.slider # 1
    /\ PlotCalls # {}

SaveCalls == { i \in 1..Len(calls) : calls[i].op = "save_function_entry" }

\* C28: a request adds a history entry only as its last step, after its parse,
\* its derivative and integral (when asked for) and its plot all returned; a
\* request in which one of them raised leaves the history as it was.
C28_SavedOnlyOnSuccess ==
    [][ /\ history' # history =>
            /\ Len(history') = Len(history) + 1
            /\ SubSeq(history', 1, Len(history)) = history
            /\ SaveCalls' = {Len(calls')}
        /\ SaveCalls' # {} =>
            /\ \A i \in 1..Len(calls') : calls'[i].ok
            /\ \E i \in 1..Len(calls') : calls'[i].op = "parse_function"
            /\ \E i \in 1..Len(calls') : calls'[i].op = "plot"
            /\ ui'.show_derivative => \E i \in 1..Len(calls') : calls'[i].op = "compute_derivative"
            /\ ui'.show_integral => \E i \in 1..Len(calls') : calls'[i].op = "compute_integral"
        /\ (\E i \in 1..Len(calls') : ~calls'[i].ok) => history' = history
      ]_vars

\* after an entry was recorded, a request parsed its text and then failed in
\* the plotting code; the history still holds that one entry
C28_Witness ==
    /\ Len(history) = 1
    /\ Len(calls) > 1
    /\ calls[Len(calls)].op = "plot"
    /\ ~calls[Len(calls)].ok

(***************************************************************************)
(* The core in one process: calls of its operations in any order.  The     *)
(* only module-level state of src/ai_helper.py and src/function_utils.py   *)
(* is the two dictionaries of ai_helper.py, held in `registries` and read  *)
(* by each call as it finds them; `calls` lists the calls made with what   *)
(* each returned.                                                          *)
(***************************************************************************)

MaxCalls == 3

\* FUNCTION_EXPLANATIONS and CALCULUS_CONCEPTS as the module defines them
\* (ai_helper.py lines 15-51)
Registries ==
    [ FUNCTION_EXPLANATIONS |-> FUNCTION_EXPLANATIONS,
      CALCULUS_CONCEPTS |-> CALCULUS_CONCEPTS ]

\* what a call returns when the dictionaries are `reg`
ReturnedBy(reg, op, args) ==
    CASE op = "parse_function" -> parse_function(args)
      [] op = "get_function_explanation" ->
             [ class |-> classify_function(args),
               bundle |-> explanation(reg.FUNCTION_EXPLANATIONS, args) ]
      [] op = "compute_derivative" -> compute_derivative(args.f, args.order)
      [] op = "compute_integral" -> compute_integral(args, NoBound, NoBound)
      [] op = "evaluate_function" ->
             evaluate_function(function_to_callable(args.f, args.x, FALSE),
                               [array |-> args.x]).returned
      [] op = "generate_plot_data" ->
             generate_plot_data(args.f, args.x_min, args.x_max, MaxGridPoints,
                                TRUE, TRUE, 1, FALSE)
      [] op = "get_calculus_concept" -> closest_concept(reg.CALCULUS_CONCEPTS, args)

\* get_calculus_concept keeping each answer in CALCULUS_CONCEPTS under the
\* query it was asked
registries_after_Memoises(reg, op, args, returned) ==
    IF op = "get_calculus_concept"
    THEN [reg EXCEPT !.CALCULUS_CONCEPTS = Append(@, [key |-> args, text |-> returned])]
    ELSE reg

\* the dictionaries after a call: no function of ai_helper.py or
\* function_utils.py assigns to a module-level name or changes an entry
registries_after(reg, op, args, returned) == reg

CoreTexts == { <<"x","*","*","2">>, <<"s","i","n","(","x",")">> }

CoreExprs == { [p |-> <<RatZero, RatZero, RatInt(1)>>, s |-> 0, c |-> 0, e |-> 0], Reciprocal }

CoreQueries == { <<"l","i","m","i","t"," ","f","o","o">>, <<"f","o","o">> }

InitCore ==
    /\ pc = "running"
    /\ registries = Registries
    /\ calls = <<>>
    /\ text = None
    /\ cls = None
    /\ parsed = None
    /\ expr = None
    /\ mid = None
    /\ result = None
    /\ orders = None
    /\ request = None
    /\ bundle = None
    /\ ui = None
    /\ history = <<>>

\* one call: its result is logged and the dictionaries are what it leaves
Make(op, args) ==
    /\ pc = "running"
    /\ Len(calls) < MaxCalls
    /\ LET returned == ReturnedBy(registries, op, args)
       IN  /\ calls' = Append(calls, [op |-> op, args |-> args, returned |-> returned])
           /\ registries' = registries_after(registries, op, args, returned)
    /\ UNCHANGED <<pc, text, cls, parsed, expr, mid, result, orders, request, bundle, ui, history>>

CallParse == \E t \in CoreTexts : Make("parse_function", t)

CallClassify == \E t \in CoreTexts : Make("get_function_explanation", t)

CallDifferentiate ==
    \E f \in CoreExprs, order \in {1, MaxOrder} : Make("compute_derivative", [f |-> f, order |-> order])

CallIntegrate == \E f \in CoreExprs : Make("compute_integral", f)

CallSample ==
    \E f \in CoreExprs : Make("evaluate_function", [f |-> f, x |-> <<RatZero, RatInt(2)>>])

CallAssemble ==
    \E f \in CoreExprs :
        Make("generate_plot_data", [f |-> f, x_min |-> RatZero, x_max |-> RatInt(2)])

CallDescribe == \E q \in CoreQueries : Make("get_calculus_concept", q)

NextCore ==
    \/ CallParse
    \/ CallClassify
    \/ CallDifferentiate
    \/ CallIntegrate
    \/ CallSample
    \/ CallAssemble
    \/ CallDescribe

SpecCore == InitCore /\ [][NextCore]_vars

\* C23: after any sequence of core calls the two registries are what the
\* module defined, and every call made returned what the same call returns in
\* a process that has made no other call: its result depends on its own
\* arguments only.
C23_Stateless ==
    /\ registries.FUNCTION_EXPLANATIONS = FUNCTION_EXPLANATIONS
    /\ registries.CALCULUS_CONCEPTS = CALCULUS_CONCEPTS
    /\ \A i \in 1..Len(calls) :
           calls[i].returned = ReturnedBy(Registries, calls[i].op, calls[i].args)
    /\ \A i, j \in 1..Len(calls) :
           (calls[i].op = calls[j].op /\ calls[i].args = calls[j].args)
               => calls[i].returned = calls[j].returned

\* the same concept was asked for twice, with a classification in between
C23_Witness ==
    /\ Len(calls) = 3
    /\ calls[1].op = "get_calculus_concept"
    /\ calls[2].op = "get_function_explanation"
    /\ calls[3].op = calls[1].op
    /\ calls[3].args = calls[1].args

(***************************************************************************)
(* The whole program: any of the requests above.                           *)
(***************************************************************************)

Init ==
    \/ InitClassify
    \/ InitParse
    \/ InitEngine
    \/ InitSample
    \/ InitAssemble
    \/ InitAdvisor
    \/ InitFrontEnd
    \/ InitCore

Next ==
    \/ NextClassify
    \/ NextParse
    \/ NextEngine
    \/ NextSample
    \/ NextAssemble
    \/ NextAdvisor
    \/ NextFrontEnd
    \/ NextCore

Spec == Init /\ [][Next]_vars

=============================================================================
